---------------------------- MODULE Spec2Model ----------------------------
(***************************************************************************)
(* The star-schema store of the school-activity signup service            *)
(* (star_schema.py), the Excel ingestion adapter (excel_loader.py) and the *)
(* HTTP handlers that mutate the store (app.py).                           *)
(*                                                                         *)
(* A Python dict is modelled as the sequence of its <<key, value>> entries *)
(* in insertion order (assigning to an existing key keeps its place); the  *)
(* three lookup indexes are never iterated and are modelled as functions.  *)
(* A datetime is the record [year, month, day, hour].                      *)
(***************************************************************************)
EXTENDS Integers, Sequences, FiniteSets, TLC

(***************************************************************************)
(* Inputs the operations are exercised with.                               *)
(***************************************************************************)
Emails == {"michael@mergington.edu", "emma@mergington.edu"}
ActivityNames == {"Chess Club", "Art Club"}
\* the rows add_student is called with: one email comes with two different
\* names and grades, so that a duplicate call can differ from the first one
StudentRows ==
  { [email |-> "michael@mergington.edu", name |-> "Michael Johnson", grade_level |-> 9],
    [email |-> "michael@mergington.edu", name |-> "Mike J.", grade_level |-> 10],
    [email |-> "emma@mergington.edu", name |-> "Emma Williams", grade_level |-> 11] }
\* the rows add_activity is called with, likewise
ActivityRows ==
  { [activity_name |-> "Chess Club", description |-> "Learn strategies",
     schedule |-> "Fridays", max_participants |-> 1],
    [activity_name |-> "Chess Club", description |-> "Chess for all",
     schedule |-> "Mondays", max_participants |-> 2],
    [activity_name |-> "Art Club", description |-> "Explore creativity",
     schedule |-> "Thursdays", max_participants |-> 2] }
\* two instants of one day and one instant of the next day
Instants ==
  { [year |-> 2024, month |-> 1, day |-> 31, hour |-> 9],
    [year |-> 2024, month |-> 1, day |-> 31, hour |-> 15],
    [year |-> 2024, month |-> 2, day |-> 1, hour |-> 9] }

\* the model stops adding fact rows once _fact_counter exceeds MaxFacts
MaxFacts == 2

\* Python's None, as returned by dict.get for a missing key (keys start at 1)
None == 0
\* a signup_date argument that was omitted
NoDate == [year |-> 0, month |-> 0, day |-> 0, hour |-> 0]

VARIABLES
  dim_students,          \* StarSchemaModel.dim_students
  dim_activities,        \* StarSchemaModel.dim_activities
  dim_dates,             \* StarSchemaModel.dim_dates
  fact_signups,          \* StarSchemaModel.fact_signups
  student_counter,       \* StarSchemaModel._student_counter
  activity_counter,      \* StarSchemaModel._activity_counter
  date_counter,          \* StarSchemaModel._date_counter
  fact_counter,          \* StarSchemaModel._fact_counter
  student_email_index,   \* StarSchemaModel._student_email_index
  activity_name_index,   \* StarSchemaModel._activity_name_index
  date_string_index,     \* StarSchemaModel._date_string_index
  ret,                   \* the last call: its arguments, return value and error
  student_log,           \* history: <<email, id returned>> of the first add_student call per email
  activity_log,          \* history: the same for add_activity
  signups_ok,            \* history: number of add_signup calls that returned
  activities,            \* app.py: the in-memory activity database
  response,              \* app.py: the response to the last HTTP request
  temp_files,            \* app.py: the uploads currently saved under /tmp
  threads                \* app.py: the requests in progress, one per server thread

storeVars == <<dim_students, dim_activities, dim_dates, fact_signups,
               student_counter, activity_counter, date_counter, fact_counter,
               student_email_index, activity_name_index, date_string_index>>
histVars == <<student_log, activity_log, signups_ok>>
apiVars == <<activities, response, temp_files>>
vars == <<storeVars, ret, histVars, apiVars, threads>>

(***************************************************************************)
(* Python dict helpers.                                                    *)
(***************************************************************************)
Keys(t) == {t[i].key : i \in 1..Len(t)}
Has(t, k) == \E i \in 1..Len(t) : t[i].key = k
Get(t, k) == t[CHOOSE i \in 1..Len(t) : t[i].key = k].val
Values(t) == [i \in 1..Len(t) |-> t[i].val]
\* d[k] = v
Put(t, k, v) ==
  IF Has(t, k)
  THEN [i \in 1..Len(t) |-> IF t[i].key = k THEN [key |-> k, val |-> v] ELSE t[i]]
  ELSE Append(t, [key |-> k, val |-> v])
EmptyIndex == [k \in {} |-> None]
IndexGet(f, k) == IF k \in DOMAIN f THEN f[k] ELSE None
IndexPut(f, k, v) == [x \in DOMAIN f \cup {k} |-> IF x = k THEN v ELSE f[x]]

(***************************************************************************)
(* datetime formatting.                                                    *)
(***************************************************************************)
\* date.strftime("%Y-%m-%d"): the calendar day, time of day dropped
StrftimeYmd(date) == <<date.year, date.month, date.day>>
\* date.isoformat(): the full instant
IsoFormat(date) == <<date.year, date.month, date.day, date.hour>>
WeekdayNames == <<"Sunday", "Monday", "Tuesday", "Wednesday", "Thursday", "Friday", "Saturday">>
MonthOffsets == <<0, 3, 2, 5, 0, 3, 5, 1, 4, 6, 2, 4>>
\* date.strftime("%A"): the English weekday name of the Gregorian date
StrftimeA(date) ==
  LET y == IF date.month < 3 THEN date.year - 1 ELSE date.year
      w == (y + (y \div 4) - (y \div 100) + (y \div 400)
              + MonthOffsets[date.month] + date.day) % 7
  IN WeekdayNames[w + 1]

(***************************************************************************)
(* The store as a value, so that a method is an operator from a store to   *)
(* the store it leaves and the value it returns or the error it raises.    *)
(***************************************************************************)
Store ==
  [dim_students |-> dim_students, dim_activities |-> dim_activities,
   dim_dates |-> dim_dates, fact_signups |-> fact_signups,
   student_counter |-> student_counter, activity_counter |-> activity_counter,
   date_counter |-> date_counter, fact_counter |-> fact_counter,
   student_email_index |-> student_email_index,
   activity_name_index |-> activity_name_index,
   date_string_index |-> date_string_index]

\* StarSchemaModel.__init__
EmptyStore ==
  [dim_students |-> <<>>, dim_activities |-> <<>>, dim_dates |-> <<>>,
   fact_signups |-> <<>>,
   student_counter |-> 1, activity_counter |-> 1, date_counter |-> 1,
   fact_counter |-> 1,
   student_email_index |-> EmptyIndex, activity_name_index |-> EmptyIndex,
   date_string_index |-> EmptyIndex]

SetStore(S) ==
  /\ dim_students' = S.dim_students
  /\ dim_activities' = S.dim_activities
  /\ dim_dates' = S.dim_dates
  /\ fact_signups' = S.fact_signups
  /\ student_counter' = S.student_counter
  /\ activity_counter' = S.activity_counter
  /\ date_counter' = S.date_counter
  /\ fact_counter' = S.fact_counter
  /\ student_email_index' = S.student_email_index
  /\ activity_name_index' = S.activity_name_index
  /\ date_string_index' = S.date_string_index

\* the store holds S
StoreIs(S) ==
  /\ dim_students = S.dim_students
  /\ dim_activities = S.dim_activities
  /\ dim_dates = S.dim_dates
  /\ fact_signups = S.fact_signups
  /\ student_counter = S.student_counter
  /\ activity_counter = S.activity_counter
  /\ date_counter = S.date_counter
  /\ fact_counter = S.fact_counter
  /\ student_email_index = S.student_email_index
  /\ activity_name_index = S.activity_name_index
  /\ date_string_index = S.date_string_index

Returned(S, v) == [store |-> S, value |-> v, error |-> "none"]
Raised(S, e) == [store |-> S, value |-> None, error |-> e]


(***************************************************************************)
(* StarSchemaModel: the mutating methods.                                  *)
(***************************************************************************)
\* add_student without the duplicate-email check of lines 80-81
add_student_no_dedup(S, email, name, grade_level) ==
  LET student_id == S.student_counter
      student == [student_id |-> student_id, email |-> email, name |-> name,
                  grade_level |-> grade_level]
  IN Returned([S EXCEPT !.dim_students = Put(@, student_id, student),
                        !.student_email_index = IndexPut(@, email, student_id),
                        !.student_counter = @ + 1],
              student_id)

\* add_student advancing the counter on a duplicate call as well
add_student_counts_calls(S, email, name, grade_level) ==
  IF email \in DOMAIN S.student_email_index
  THEN Returned([S EXCEPT !.student_counter = @ + 1], S.student_email_index[email])
  ELSE add_student_no_dedup(S, email, name, grade_level)

\* add_student replacing the stored name and grade on a duplicate call
add_student_last_write_wins(S, email, name, grade_level) ==
  IF email \in DOMAIN S.student_email_index
  THEN LET student_id == S.student_email_index[email]
       IN Returned([S EXCEPT !.dim_students =
                      Put(@, student_id, [student_id |-> student_id, email |-> email,
                                          name |-> name, grade_level |-> grade_level])],
                   student_id)
  ELSE add_student_no_dedup(S, email, name, grade_level)

\* StarSchemaModel.add_student
add_student(S, email, name, grade_level) ==
  IF email \in DOMAIN S.student_email_index
  THEN Returned(S, S.student_email_index[email])
  ELSE LET student_id == S.student_counter
           student == [student_id |-> student_id, email |-> email, name |-> name,
                       grade_level |-> grade_level]
       IN Returned([S EXCEPT !.dim_students = Put(@, student_id, student),
                             !.student_email_index = IndexPut(@, email, student_id),
                             !.student_counter = @ + 1],
                   student_id)

\* add_activity advancing the counter on a duplicate call as well
add_activity_counts_calls(S, activity_name, description, schedule, max_participants) ==
  IF activity_name \in DOMAIN S.activity_name_index
  THEN Returned([S EXCEPT !.activity_counter = @ + 1], S.activity_name_index[activity_name])
  ELSE LET activity_id == S.activity_counter
           activity == [activity_id |-> activity_id, activity_name |-> activity_name,
                        description |-> description, schedule |-> schedule,
                        max_participants |-> max_participants]
       IN Returned([S EXCEPT !.dim_activities = Put(@, activity_id, activity),
                             !.activity_name_index = IndexPut(@, activity_name, activity_id),
                             !.activity_counter = @ + 1],
                   activity_id)

\* StarSchemaModel.add_activity
add_activity(S, activity_name, description, schedule, max_participants) ==
  IF activity_name \in DOMAIN S.activity_name_index
  THEN Returned(S, S.activity_name_index[activity_name])
  ELSE LET activity_id == S.activity_counter
           activity == [activity_id |-> activity_id, activity_name |-> activity_name,
                        description |-> description, schedule |-> schedule,
                        max_participants |-> max_participants]
       IN Returned([S EXCEPT !.dim_activities = Put(@, activity_id, activity),
                             !.activity_name_index = IndexPut(@, activity_name, activity_id),
                             !.activity_counter = @ + 1],
                   activity_id)

\* add_date that forgets to index the new row (line 130)
add_date_no_index(S, date) ==
  LET date_str == StrftimeYmd(date)
  IN IF date_str \in DOMAIN S.date_string_index
     THEN Returned(S, S.date_string_index[date_str])
     ELSE LET date_id == S.date_counter
              dim_date == [date_id |-> date_id, date |-> date_str, day |-> date.day,
                           month |-> date.month, year |-> date.year,
                           weekday |-> StrftimeA(date)]
          IN Returned([S EXCEPT !.dim_dates = Put(@, date_id, dim_date),
                                !.date_counter = @ + 1],
                      date_id)

\* add_date indexing the date by the full instant instead of the day
add_date_by_instant(S, date) ==
  LET date_str == IsoFormat(date)
  IN IF date_str \in DOMAIN S.date_string_index
     THEN Returned(S, S.date_string_index[date_str])
     ELSE LET date_id == S.date_counter
              dim_date == [date_id |-> date_id, date |-> StrftimeYmd(date), day |-> date.day,
                           month |-> date.month, year |-> date.year,
                           weekday |-> StrftimeA(date)]
          IN Returned([S EXCEPT !.dim_dates = Put(@, date_id, dim_date),
                                !.date_string_index = IndexPut(@, date_str, date_id),
                                !.date_counter = @ + 1],
                      date_id)

\* StarSchemaModel.add_date
add_date(S, date) ==
  LET date_str == StrftimeYmd(date)
  IN IF date_str \in DOMAIN S.date_string_index
     THEN Returned(S, S.date_string_index[date_str])
     ELSE LET date_id == S.date_counter
              dim_date == [date_id |-> date_id, date |-> date_str, day |-> date.day,
                           month |-> date.month, year |-> date.year,
                           weekday |-> StrftimeA(date)]
          IN Returned([S EXCEPT !.dim_dates = Put(@, date_id, dim_date),
                                !.date_string_index = IndexPut(@, date_str, date_id),
                                !.date_counter = @ + 1],
                      date_id)

\* lines 151-162 of add_signup: the fact record is created and stored
StoreFact(S, student_id, activity_id, date_id, date) ==
  LET fact_id == S.fact_counter
      fact == [fact_signup_id |-> fact_id, student_id |-> student_id,
               activity_id |-> activity_id, date_id |-> date_id,
               signup_timestamp |-> IsoFormat(date)]
  IN Returned([S EXCEPT !.fact_signups = Put(@, fact_id, fact),
                        !.fact_counter = @ + 1],
              fact_id)

ErrStudent == "Student not found in dimension table"
ErrActivity == "Activity not found in dimension table"

\* add_signup resolving the date before the two lookups are checked
add_signup_date_first(S, student_email, activity_name, signup_date, now) ==
  LET date == IF signup_date = NoDate THEN now ELSE signup_date
      student_id == IndexGet(S.student_email_index, student_email)
      activity_id == IndexGet(S.activity_name_index, activity_name)
      d == add_date(S, date)
  IN IF student_id = None THEN Raised(d.store, ErrStudent)
     ELSE IF activity_id = None THEN Raised(d.store, ErrActivity)
     ELSE StoreFact(d.store, student_id, activity_id, d.value, date)

\* add_signup without the check of lines 144-145
add_signup_no_student_check(S, student_email, activity_name, signup_date, now) ==
  LET date == IF signup_date = NoDate THEN now ELSE signup_date
      student_id == IndexGet(S.student_email_index, student_email)
      activity_id == IndexGet(S.activity_name_index, activity_name)
  IN IF activity_id = None THEN Raised(S, ErrActivity)
     ELSE LET d == add_date(S, date)
          IN StoreFact(d.store, student_id, activity_id, d.value, date)

\* add_signup with the two checks of lines 144-147 in the other order
add_signup_activity_first(S, student_email, activity_name, signup_date, now) ==
  LET date == IF signup_date = NoDate THEN now ELSE signup_date
      student_id == IndexGet(S.student_email_index, student_email)
      activity_id == IndexGet(S.activity_name_index, activity_name)
  IN IF activity_id = None THEN Raised(S, ErrActivity)
     ELSE IF student_id = None THEN Raised(S, ErrStudent)
     ELSE LET d == add_date(S, date)
          IN StoreFact(d.store, student_id, activity_id, d.value, date)

\* add_signup returning the earlier fact of the same student, activity and day
add_signup_dedup(S, student_email, activity_name, signup_date, now) ==
  LET date == IF signup_date = NoDate THEN now ELSE signup_date
      student_id == IndexGet(S.student_email_index, student_email)
      activity_id == IndexGet(S.activity_name_index, activity_name)
  IN IF student_id = None THEN Raised(S, ErrStudent)
     ELSE IF activity_id = None THEN Raised(S, ErrActivity)
     ELSE LET d == add_date(S, date)
              same == {i \in 1..Len(S.fact_signups) :
                         /\ S.fact_signups[i].val.student_id = student_id
                         /\ S.fact_signups[i].val.activity_id = activity_id
                         /\ S.fact_signups[i].val.date_id = d.value}
          IN IF same # {}
             THEN Returned(d.store, S.fact_signups[CHOOSE i \in same : TRUE].key)
             ELSE StoreFact(d.store, student_id, activity_id, d.value, date)

ErrFull == "Activity is full"

\* add_signup refusing a signup once the activity has max_participants facts
add_signup_capacity(S, student_email, activity_name, signup_date, now) ==
  LET date == IF signup_date = NoDate THEN now ELSE signup_date
      student_id == IndexGet(S.student_email_index, student_email)
      activity_id == IndexGet(S.activity_name_index, activity_name)
  IN IF student_id = None THEN Raised(S, ErrStudent)
     ELSE IF activity_id = None THEN Raised(S, ErrActivity)
     ELSE IF Cardinality({i \in 1..Len(S.fact_signups) :
                            S.fact_signups[i].val.activity_id = activity_id})
               >= Get(S.dim_activities, activity_id).max_participants
     THEN Raised(S, ErrFull)
     ELSE LET d == add_date(S, date)
          IN StoreFact(d.store, student_id, activity_id, d.value, date)

\* add_signup updating the earlier fact of the same student and activity in
\* place
add_signup_upsert(S, student_email, activity_name, signup_date, now) ==
  LET date == IF signup_date = NoDate THEN now ELSE signup_date
      student_id == IndexGet(S.student_email_index, student_email)
      activity_id == IndexGet(S.activity_name_index, activity_name)
  IN IF student_id = None THEN Raised(S, ErrStudent)
     ELSE IF activity_id = None THEN Raised(S, ErrActivity)
     ELSE LET d == add_date(S, date)
              same == {i \in 1..Len(S.fact_signups) :
                         /\ S.fact_signups[i].val.student_id = student_id
                         /\ S.fact_signups[i].val.activity_id = activity_id}
          IN IF same # {}
             THEN LET fact_id == S.fact_signups[CHOOSE i \in same : TRUE].key
                  IN Returned([d.store EXCEPT !.fact_signups =
                                 Put(@, fact_id, [fact_signup_id |-> fact_id,
                                                  student_id |-> student_id,
                                                  activity_id |-> activity_id,
                                                  date_id |-> d.value,
                                                  signup_timestamp |-> IsoFormat(date)])],
                              fact_id)
             ELSE StoreFact(d.store, student_id, activity_id, d.value, date)

\* add_signup storing the day of the signup as its timestamp
add_signup_day_timestamp(S, student_email, activity_name, signup_date, now) ==
  LET date == IF signup_date = NoDate THEN now ELSE signup_date
      student_id == IndexGet(S.student_email_index, student_email)
      activity_id == IndexGet(S.activity_name_index, activity_name)
  IN IF student_id = None THEN Raised(S, ErrStudent)
     ELSE IF activity_id = None THEN Raised(S, ErrActivity)
     ELSE LET d == add_date(S, date)
          IN StoreFact(d.store, student_id, activity_id, d.value,
                       [date EXCEPT !.hour = 0])

\* StarSchemaModel.add_signup; now is the value datetime.now() would return
add_signup(S, student_email, activity_name, signup_date, now) ==
  LET date == IF signup_date = NoDate THEN now ELSE signup_date
      student_id == IndexGet(S.student_email_index, student_email)
      activity_id == IndexGet(S.activity_name_index, activity_name)
  IN IF student_id = None THEN Raised(S, ErrStudent)
     ELSE IF activity_id = None THEN Raised(S, ErrActivity)
     ELSE LET d == add_date(S, date)
          IN StoreFact(d.store, student_id, activity_id, d.value, date)

(***************************************************************************)
(* StarSchemaModel: the query methods.  An Optional result is the empty    *)
(* sequence (None) or the sequence of the one record found; a List result  *)
(* is a sequence.                                                          *)
(***************************************************************************)
Absent == <<>>
Some(x) == <<x>>
\* dict.get(key): None when the key is missing
DictGet(t, k) == IF Has(t, k) THEN Some(Get(t, k)) ELSE Absent

\* get_student_by_email taking the surrogate key for a 0-based position
get_student_by_email_zero_based(S, email) ==
  LET student_id == IndexGet(S.student_email_index, email)
  IN IF student_id # 0 THEN DictGet(S.dim_students, student_id - 1) ELSE Absent

\* StarSchemaModel.get_student_by_email; an id is truthy when it is not 0
get_student_by_email(S, email) ==
  LET student_id == IndexGet(S.student_email_index, email)
  IN IF student_id # 0 THEN DictGet(S.dim_students, student_id) ELSE Absent

\* StarSchemaModel.get_activity_by_name
get_activity_by_name(S, name) ==
  LET activity_id == IndexGet(S.activity_name_index, name)
  IN IF activity_id # 0 THEN DictGet(S.dim_activities, activity_id) ELSE Absent

\* StarSchemaModel.get_signups_by_student
get_signups_by_student(S, student_email) ==
  LET student_id == IndexGet(S.student_email_index, student_email)
  IN IF student_id = 0 THEN <<>>
     ELSE SelectSeq(Values(S.fact_signups), LAMBDA fact : fact.student_id = student_id)

\* get_signups_by_activity comparing the activity's id with the fact's
\* student_id
get_signups_by_activity_wrong_key(S, activity_name) ==
  LET activity_id == IndexGet(S.activity_name_index, activity_name)
  IN IF activity_id = 0 THEN <<>>
     ELSE SelectSeq(Values(S.fact_signups), LAMBDA fact : fact.student_id = activity_id)

\* StarSchemaModel.get_signups_by_activity
get_signups_by_activity(S, activity_name) ==
  LET activity_id == IndexGet(S.activity_name_index, activity_name)
  IN IF activity_id = 0 THEN <<>>
     ELSE SelectSeq(Values(S.fact_signups), LAMBDA fact : fact.activity_id = activity_id)

\* get_activity_analytics reporting no fewer than 0 spots left
get_activity_analytics_clamped(S) ==
  [i \in 1..Len(S.dim_activities) |->
     LET activity_id == S.dim_activities[i].key
         activity == S.dim_activities[i].val
         signups == SelectSeq(Values(S.fact_signups),
                              LAMBDA f : f.activity_id = activity_id)
         left == activity.max_participants - Len(signups)
     IN [activity_name |-> activity.activity_name,
         description |-> activity.description,
         schedule |-> activity.schedule,
         max_participants |-> activity.max_participants,
         current_signups |-> Len(signups),
         spots_left |-> IF left < 0 THEN 0 ELSE left]]

\* StarSchemaModel.get_activity_analytics
get_activity_analytics(S) ==
  [i \in 1..Len(S.dim_activities) |->
     LET activity_id == S.dim_activities[i].key
         activity == S.dim_activities[i].val
         signups == SelectSeq(Values(S.fact_signups),
                              LAMBDA f : f.activity_id = activity_id)
     IN [activity_name |-> activity.activity_name,
         description |-> activity.description,
         schedule |-> activity.schedule,
         max_participants |-> activity.max_participants,
         current_signups |-> Len(signups),
         spots_left |-> activity.max_participants - Len(signups)]]

\* lines 212-216: the names of the activities of the signups whose activity
\* row exists
RECURSIVE ActivityNamesOf(_, _)
ActivityNamesOf(S, signups) ==
  IF signups = <<>> THEN <<>>
  ELSE LET activity == DictGet(S.dim_activities, Head(signups).activity_id)
           rest == ActivityNamesOf(S, Tail(signups))
       IN IF activity # Absent THEN <<activity[1].activity_name>> \o rest ELSE rest

\* get_student_analytics listing each activity of a student once
RECURSIVE Distinct(_)
Distinct(seq) ==
  IF seq = <<>> THEN <<>>
  ELSE LET front == Distinct(SubSeq(seq, 1, Len(seq) - 1))
           last == seq[Len(seq)]
       IN IF \E k \in 1..Len(front) : front[k] = last THEN front
          ELSE Append(front, last)

get_student_analytics_distinct(S) ==
  [i \in 1..Len(S.dim_students) |->
     LET student_id == S.dim_students[i].key
         student == S.dim_students[i].val
         signups == SelectSeq(Values(S.fact_signups),
                              LAMBDA f : f.student_id = student_id)
         activity_names == Distinct(ActivityNamesOf(S, signups))
     IN [student_name |-> student.name,
         email |-> student.email,
         grade_level |-> student.grade_level,
         activities_count |-> Len(activity_names),
         activities |-> activity_names]]

\* StarSchemaModel.get_student_analytics
get_student_analytics(S) ==
  [i \in 1..Len(S.dim_students) |->
     LET student_id == S.dim_students[i].key
         student == S.dim_students[i].val
         signups == SelectSeq(Values(S.fact_signups),
                              LAMBDA f : f.student_id = student_id)
         \* the list the code calls activities
         activity_names == ActivityNamesOf(S, signups)
     IN [student_name |-> student.name,
         email |-> student.email,
         grade_level |-> student.grade_level,
         activities_count |-> Len(activity_names),
         activities |-> activity_names]]

(***************************************************************************)
(* The store driven directly: any sequence of calls of its four mutating   *)
(* methods, followed until the fact table holds MaxFacts rows.             *)
(***************************************************************************)
\* the request of an upload: the file's name, whether the name ends in .xlsx
\* or .xls, whether /tmp can be written
NoUpload == [filename |-> "", excel_name |-> FALSE, writable |-> FALSE]

NoCall ==
  [op |-> "none", email |-> "", activity_name |-> "", date |-> NoDate,
   value |-> None, error |-> "none", upload |-> NoUpload]

\* app.py lines 40-59
LegacyActivities ==
  [a \in {"Chess Club", "Programming Class", "Gym Class"} |->
     CASE a = "Chess Club" ->
            [description |-> "Learn strategies and compete in chess tournaments",
             schedule |-> "Fridays, 3:30 PM - 5:00 PM", max_participants |-> 12,
             participants |-> <<"michael@mergington.edu", "daniel@mergington.edu">>]
       [] a = "Programming Class" ->
            [description |-> "Learn programming fundamentals and build software projects",
             schedule |-> "Tuesdays and Thursdays, 3:30 PM - 4:30 PM", max_participants |-> 20,
             participants |-> <<"emma@mergington.edu", "sophia@mergington.edu">>]
       [] OTHER ->
            [description |-> "Physical education and sports activities",
             schedule |-> "Mondays, Wednesdays, Fridays, 2:00 PM - 3:00 PM", max_participants |-> 30,
             participants |-> <<"john@mergington.edu", "olivia@mergington.edu">>]]

NoResults == [students |-> [value |-> None, error |-> "none"],
              activities |-> [value |-> None, error |-> "none"],
              signups |-> [value |-> None, error |-> "none"]]
\* body is the JSON object a detail endpoint returns
NoResponse == [endpoint |-> "none", status |-> None, detail |-> "", results |-> NoResults,
               body |-> <<>>]
\* a def endpoint runs on a worker thread of the server's pool, an async def
\* endpoint on the event loop's thread
Workers == {"worker1", "worker2"}
Threads == Workers \cup {"loop"}
NoCallArgs == [op |-> "none"]
\* a thread between two requests: the status it answered with, the fact id
\* add_signup returned to it last, the number of requests it has served
Idle == [pc |-> "idle", status |-> None, fact_id |-> None, served |-> 0]
\* a thread at work has its request and the locals of the method it is in
Busy == [pc |-> "respond", status |-> None, fact_id |-> None, served |-> 0,
         kind |-> "none", todo |-> <<>>, filename |-> "",
         call |-> NoCallArgs, date |-> NoDate, student_id |-> None,
         activity_id |-> None, date_id |-> None, id |-> None, tmp |-> None]

InitRest ==
  /\ ret = NoCall
  /\ student_log = <<>>
  /\ activity_log = <<>>
  /\ signups_ok = 0
  /\ activities = LegacyActivities
  /\ response = NoResponse
  /\ temp_files = {}
  /\ threads = [t \in Threads |-> Idle]

\* a fresh StarSchemaModel()
Init ==
  /\ StoreIs(EmptyStore)
  /\ InitRest

AddStudent ==
  /\ fact_counter <= MaxFacts
  /\ \E row \in StudentRows :
    LET r == add_student(Store, row.email, row.name, row.grade_level)
    IN /\ SetStore(r.store)
       /\ ret' = [NoCall EXCEPT !.op = "add_student", !.email = row.email,
                                !.value = r.value, !.error = r.error]
       /\ student_log' = IF Has(student_log, row.email) THEN student_log
                         ELSE Put(student_log, row.email, r.value)
       /\ UNCHANGED <<activity_log, signups_ok, apiVars, threads>>

AddActivity ==
  /\ fact_counter <= MaxFacts
  /\ \E row \in ActivityRows :
    LET r == add_activity(Store, row.activity_name, row.description,
                          row.schedule, row.max_participants)
    IN /\ SetStore(r.store)
       /\ ret' = [NoCall EXCEPT !.op = "add_activity",
                                !.activity_name = row.activity_name,
                                !.value = r.value, !.error = r.error]
       /\ activity_log' = IF Has(activity_log, row.activity_name) THEN activity_log
                          ELSE Put(activity_log, row.activity_name, r.value)
       /\ UNCHANGED <<student_log, signups_ok, apiVars, threads>>

AddDate ==
  /\ fact_counter <= MaxFacts
  /\ \E date \in Instants :
    LET r == add_date(Store, date)
    IN /\ SetStore(r.store)
       /\ ret' = [NoCall EXCEPT !.op = "add_date", !.date = date,
                                !.value = r.value, !.error = r.error]
       /\ UNCHANGED <<histVars, apiVars, threads>>

\* signup_date = NoDate is the call without the argument; the clock then reads
\* now.  ret.date is the instant of the fact the call stored: the argument, or
\* the clock
AddSignup ==
  /\ fact_counter <= MaxFacts
  /\ \E student_email \in Emails, activity_name \in ActivityNames,
        signup_date \in Instants \cup {NoDate} :
     \E now \in IF signup_date = NoDate THEN Instants ELSE {signup_date} :
       LET r == add_signup(Store, student_email, activity_name, signup_date, now)
       IN /\ SetStore(r.store)
          /\ ret' = [NoCall EXCEPT !.op = "add_signup", !.email = student_email,
                                   !.activity_name = activity_name,
                                   !.date = IF r.error = "none" THEN now ELSE NoDate,
                                   !.value = r.value, !.error = r.error]
          /\ signups_ok' = IF r.error = "none" THEN signups_ok + 1 ELSE signups_ok
          /\ UNCHANGED <<student_log, activity_log, apiVars, threads>>

Next == AddStudent \/ AddActivity \/ AddDate \/ AddSignup

Spec == Init /\ [][Next]_vars

(***************************************************************************)
(* ExcelDataLoader.  A workbook is three sheets; a sheet is absent (then   *)
(* pd.read_excel raises) or a sequence of rows.  A blank signup_date cell  *)
(* is NoDate.                                                              *)
(***************************************************************************)
Sheet(rows) == [present |-> TRUE, rows |-> rows]
NoSheet == [present |-> FALSE, rows |-> <<>>]

\* a workbook whose every signup row names a student and an activity of the
\* workbook and has its date
ValidWorkbook ==
  [students |-> Sheet(<< [email |-> "michael@mergington.edu", name |-> "Michael Johnson",
                          grade_level |-> 9] >>),
   activities |-> Sheet(<< [activity_name |-> "Chess Club",
                            description |-> "Learn strategies",
                            schedule |-> "Fridays", max_participants |-> 1] >>),
   signups |-> Sheet(<< [student_email |-> "michael@mergington.edu",
                         activity_name |-> "Chess Club",
                         signup_date |-> [year |-> 2024, month |-> 1, day |-> 31, hour |-> 9]] >>)]

\* a file with none of the three sheets
NoWorkbook == [students |-> NoSheet, activities |-> NoSheet, signups |-> NoSheet]

Workbooks ==
  { \* the second of the three signup rows names an activity the workbook does
    \* not define
    [students |-> Sheet(<< [email |-> "michael@mergington.edu", name |-> "Michael Johnson",
                            grade_level |-> 9],
                           [email |-> "emma@mergington.edu", name |-> "Emma Williams",
                            grade_level |-> 11] >>),
     activities |-> Sheet(<< [activity_name |-> "Chess Club",
                              description |-> "Learn strategies",
                              schedule |-> "Fridays", max_participants |-> 1] >>),
     signups |-> Sheet(<< [student_email |-> "michael@mergington.edu",
                           activity_name |-> "Chess Club",
                           signup_date |-> [year |-> 2024, month |-> 1, day |-> 31, hour |-> 9]],
                          [student_email |-> "emma@mergington.edu",
                           activity_name |-> "Art Club",
                           signup_date |-> NoDate],
                          [student_email |-> "michael@mergington.edu",
                           activity_name |-> "Chess Club",
                           signup_date |-> [year |-> 2024, month |-> 1, day |-> 31, hour |-> 15]] >>)],
    ValidWorkbook,
    NoWorkbook,
    \* no Students sheet
    [students |-> NoSheet,
     activities |-> Sheet(<< [activity_name |-> "Art Club",
                              description |-> "Explore creativity",
                              schedule |-> "Thursdays", max_participants |-> 2] >>),
     signups |-> Sheet(<< [student_email |-> "emma@mergington.edu",
                           activity_name |-> "Art Club",
                           signup_date |-> NoDate] >>)] }

ErrLoadStudents == "Error loading students from Excel"
ErrLoadActivities == "Error loading activities from Excel"
ErrLoadSignups == "Error loading signups from Excel"

\* the loop of lines 31-37
RECURSIVE load_student_rows(_, _, _)
load_student_rows(S, rows, count) ==
  IF rows = <<>> THEN Returned(S, count)
  ELSE LET row == Head(rows)
           r == add_student(S, row.email, row.name, row.grade_level)
       IN load_student_rows(r.store, Tail(rows), count + 1)

\* ExcelDataLoader.load_students_from_excel
load_students_from_excel(S, sheet) ==
  IF ~sheet.present THEN Raised(S, ErrLoadStudents)
  ELSE load_student_rows(S, sheet.rows, 0)

\* the loop of lines 53-60
RECURSIVE load_activity_rows(_, _, _)
load_activity_rows(S, rows, count) ==
  IF rows = <<>> THEN Returned(S, count)
  ELSE LET row == Head(rows)
           r == add_activity(S, row.activity_name, row.description, row.schedule,
                             row.max_participants)
       IN load_activity_rows(r.store, Tail(rows), count + 1)

\* ExcelDataLoader.load_activities_from_excel
load_activities_from_excel(S, sheet) ==
  IF ~sheet.present THEN Raised(S, ErrLoadActivities)
  ELSE load_activity_rows(S, sheet.rows, 0)

\* the loop skipping a row whose student, activity and instant a fact of the
\* store already has
RECURSIVE load_signup_rows_once(_, _, _, _)
load_signup_rows_once(S, rows, count, now) ==
  IF rows = <<>> THEN Returned(S, count)
  ELSE LET row == Head(rows)
           date == IF row.signup_date = NoDate THEN now ELSE row.signup_date
           known == \E i \in 1..Len(S.fact_signups) :
                      LET fact == S.fact_signups[i].val
                      IN /\ fact.student_id = IndexGet(S.student_email_index,
                                                       row.student_email)
                         /\ fact.activity_id = IndexGet(S.activity_name_index,
                                                        row.activity_name)
                         /\ fact.signup_timestamp = IsoFormat(date)
           r == add_signup(S, row.student_email, row.activity_name, row.signup_date, now)
       IN IF known THEN load_signup_rows_once(S, Tail(rows), count + 1, now)
          ELSE IF r.error # "none" THEN Raised(r.store, ErrLoadSignups)
          ELSE load_signup_rows_once(r.store, Tail(rows), count + 1, now)

\* the loop of lines 76-86; an add_signup that raises ends it (lines 89-90)
RECURSIVE load_signup_rows(_, _, _, _)
load_signup_rows(S, rows, count, now) ==
  IF rows = <<>> THEN Returned(S, count)
  ELSE LET row == Head(rows)
           r == add_signup(S, row.student_email, row.activity_name, row.signup_date, now)
       IN IF r.error # "none" THEN Raised(r.store, ErrLoadSignups)
          ELSE load_signup_rows(r.store, Tail(rows), count + 1, now)

\* load_signups_from_excel undoing the rows it had loaded when a row fails
load_signups_from_excel_atomic(S, sheet, now) ==
  IF ~sheet.present THEN Raised(S, ErrLoadSignups)
  ELSE LET r == load_signup_rows(S, sheet.rows, 0, now)
       IN IF r.error # "none" THEN Raised(S, ErrLoadSignups) ELSE r

\* ExcelDataLoader.load_signups_from_excel
load_signups_from_excel(S, sheet, now) ==
  IF ~sheet.present THEN Raised(S, ErrLoadSignups)
  ELSE load_signup_rows(S, sheet.rows, 0, now)

\* what results[...] is set to: the count, or the error description
Outcome(r) == [value |-> r.value, error |-> r.error]

\* load_all_from_excel giving up at the first batch that fails
load_all_from_excel_stops_at_failure(S, workbook, now) ==
  LET st == load_students_from_excel(S, workbook.students)
      ac == load_activities_from_excel(st.store, workbook.activities)
      sg == load_signups_from_excel(ac.store, workbook.signups, now)
  IN IF st.error # "none"
     THEN [store |-> st.store, error |-> "none",
           results |-> [NoResults EXCEPT !.students = Outcome(st)]]
     ELSE IF ac.error # "none"
     THEN [store |-> ac.store, error |-> "none",
           results |-> [NoResults EXCEPT !.students = Outcome(st),
                                         !.activities = Outcome(ac)]]
     ELSE [store |-> sg.store, error |-> "none",
           results |-> [students |-> Outcome(st), activities |-> Outcome(ac),
                        signups |-> Outcome(sg)]]

\* load_all_from_excel without the try/except around its batches: the first
\* batch that fails ends the call with its exception
load_all_from_excel_raising(S, workbook, now) ==
  LET st == load_students_from_excel(S, workbook.students)
      ac == load_activities_from_excel(st.store, workbook.activities)
      sg == load_signups_from_excel(ac.store, workbook.signups, now)
  IN IF st.error # "none"
     THEN [store |-> st.store, error |-> st.error, results |-> NoResults]
     ELSE IF ac.error # "none"
     THEN [store |-> ac.store, error |-> ac.error, results |-> NoResults]
     ELSE IF sg.error # "none"
     THEN [store |-> sg.store, error |-> sg.error, results |-> NoResults]
     ELSE [store |-> sg.store, error |-> "none",
           results |-> [students |-> Outcome(st), activities |-> Outcome(ac),
                        signups |-> Outcome(sg)]]

\* ExcelDataLoader.load_all_from_excel; every row without a date reads the
\* clock as now.  Each batch has its own try/except (lines 101-114), so the
\* call itself raises nothing: error is "none"
load_all_from_excel(S, workbook, now) ==
  LET st == load_students_from_excel(S, workbook.students)
      ac == load_activities_from_excel(st.store, workbook.activities)
      sg == load_signups_from_excel(ac.store, workbook.signups, now)
  IN [store |-> sg.store, error |-> "none",
      results |-> [students |-> Outcome(st), activities |-> Outcome(ac),
                   signups |-> Outcome(sg)]]

(***************************************************************************)
(* app.py: the handlers that mutate the store, each as one step.           *)
(***************************************************************************)
HttpOk == 200
HttpBadRequest == 400
HttpNotFound == 404
HttpServerError == 500

\* the participants lists stop growing MaxSignupRequests entries after the
\* initial ones
MaxSignupRequests == 2

Appended(A, activity_name) ==
  Len(A[activity_name].participants) - Len(LegacyActivities[activity_name].participants)

\* signup_for_activity answering not-found when the store does not accept the
\* signup
signup_for_activity_maps_error(A, S, activity_name, email, now) ==
  IF activity_name \notin DOMAIN A
  THEN [activities |-> A, store |-> S, called |-> FALSE, call |-> Raised(S, "none"),
        response |-> [NoResponse EXCEPT !.endpoint = "signup", !.status = HttpNotFound,
                                        !.detail = "Activity not found"]]
  ELSE LET A1 == [A EXCEPT ![activity_name].participants = Append(@, email)]
           r == add_signup(S, email, activity_name, NoDate, now)
       IN [activities |-> A1, store |-> r.store, called |-> TRUE, call |-> r,
           response |-> IF r.error # "none"
                        THEN [NoResponse EXCEPT !.endpoint = "signup",
                                                !.status = HttpNotFound,
                                                !.detail = r.error]
                        ELSE [NoResponse EXCEPT !.endpoint = "signup", !.status = HttpOk,
                                                !.detail = "Signed up"]]

\* signup_for_activity falling back on the store for a name the mapping
\* does not have
signup_for_activity_asks_store(A, S, activity_name, email, now) ==
  IF activity_name \notin DOMAIN A /\ activity_name \notin DOMAIN S.activity_name_index
  THEN [activities |-> A, store |-> S, called |-> FALSE, call |-> Raised(S, "none"),
        response |-> [NoResponse EXCEPT !.endpoint = "signup", !.status = HttpNotFound,
                                        !.detail = "Activity not found"]]
  ELSE LET A1 == IF activity_name \in DOMAIN A
                 THEN [A EXCEPT ![activity_name].participants = Append(@, email)]
                 ELSE A
           r == add_signup(S, email, activity_name, NoDate, now)
       IN [activities |-> A1, store |-> r.store, called |-> TRUE, call |-> r,
           response |-> [NoResponse EXCEPT !.endpoint = "signup", !.status = HttpOk,
                                           !.detail = "Signed up"]]

\* app.py signup_for_activity
signup_for_activity(A, S, activity_name, email, now) ==
  IF activity_name \notin DOMAIN A
  THEN [activities |-> A, store |-> S, called |-> FALSE, call |-> Raised(S, "none"),
        response |-> [NoResponse EXCEPT !.endpoint = "signup", !.status = HttpNotFound,
                                        !.detail = "Activity not found"]]
  ELSE LET A1 == [A EXCEPT ![activity_name].participants = Append(@, email)]
           r == add_signup(S, email, activity_name, NoDate, now)
       IN \* lines 86-91: an exception of add_signup is printed and dropped
          [activities |-> A1, store |-> r.store, called |-> TRUE, call |-> r,
           response |-> [NoResponse EXCEPT !.endpoint = "signup", !.status = HttpOk,
                                           !.detail = "Signed up"]]

\* app.py load_excel_file: an upload is its file name, whether /tmp can be
\* written, and the workbook
load_excel_file(S, T, upload, now) ==
  IF ~upload.excel_name
  THEN [store |-> S, temp_files |-> T,
        response |-> [NoResponse EXCEPT !.endpoint = "load-excel",
                                        !.status = HttpBadRequest,
                                        !.detail = "File must be an Excel file"]]
  ELSE IF ~upload.writable
  THEN \* lines 210-213: the write raised; a file that exists is removed
       [store |-> S, temp_files |-> T \ {upload.filename},
        response |-> [NoResponse EXCEPT !.endpoint = "load-excel",
                                        !.status = HttpServerError,
                                        !.detail = "Error loading Excel file"]]
  ELSE LET written == T \cup {upload.filename}
           r == load_all_from_excel(S, upload.workbook, now)
       IN IF r.error # "none"
          THEN \* lines 210-213: the load raised; the file is removed
               [store |-> r.store, temp_files |-> written \ {upload.filename},
                response |-> [NoResponse EXCEPT !.endpoint = "load-excel",
                                                !.status = HttpServerError,
                                                !.detail = "Error loading Excel file"]]
          ELSE \* line 207: temp_file.unlink()
               [store |-> r.store, temp_files |-> written \ {upload.filename},
                response |-> [NoResponse EXCEPT !.endpoint = "load-excel",
                                                !.status = HttpOk,
                                                !.detail = "Data loaded successfully",
                                                !.results = r.results]]

\* app.py get_student_details; a record that was found is truthy
get_student_details(S, email) ==
  LET student == get_student_by_email(S, email)
  IN IF student = Absent
     THEN [NoResponse EXCEPT !.endpoint = "student-details", !.status = HttpNotFound,
                             !.detail = "Student not found"]
     ELSE LET signups == get_signups_by_student(S, email)
              signup_details ==
                [k \in 1..Len(signups) |->
                   LET activity == DictGet(S.dim_activities, signups[k].activity_id)
                       date == DictGet(S.dim_dates, signups[k].date_id)
                   IN [activity_name |-> IF activity # Absent
                                         THEN activity[1].activity_name ELSE "Unknown",
                       signup_date |-> IF date # Absent THEN date[1].date ELSE "Unknown",
                       signup_timestamp |-> signups[k].signup_timestamp]]
          IN [NoResponse EXCEPT !.endpoint = "student-details", !.status = HttpOk,
                                !.body = [student |-> student[1],
                                          signups |-> signup_details]]

\* the signups list of get_activity_details (lines 167-178)
ActivitySignupDetails(S, signups) ==
  [k \in 1..Len(signups) |->
     LET student == DictGet(S.dim_students, signups[k].student_id)
         date == DictGet(S.dim_dates, signups[k].date_id)
     IN [student_name |-> IF student # Absent THEN student[1].name ELSE "Unknown",
         student_email |-> IF student # Absent THEN student[1].email ELSE "Unknown",
         grade_level |-> IF student # Absent THEN student[1].grade_level ELSE "Unknown",
         signup_date |-> IF date # Absent THEN date[1].date ELSE "Unknown",
         signup_timestamp |-> signups[k].signup_timestamp]]

\* get_activity_details reporting no fewer than 0 spots left
get_activity_details_clamped(S, activity_name) ==
  LET activity == get_activity_by_name(S, activity_name)
  IN IF activity = Absent
     THEN [NoResponse EXCEPT !.endpoint = "activity-details", !.status = HttpNotFound,
                             !.detail = "Activity not found"]
     ELSE LET signups == get_signups_by_activity(S, activity_name)
              signup_details == ActivitySignupDetails(S, signups)
              left == activity[1].max_participants - Len(signup_details)
          IN [NoResponse EXCEPT !.endpoint = "activity-details", !.status = HttpOk,
                                !.body = [activity |-> activity[1],
                                          signups |-> signup_details,
                                          total_signups |-> Len(signup_details),
                                          spots_left |-> IF left < 0 THEN 0 ELSE left]]

\* app.py get_activity_details
get_activity_details(S, activity_name) ==
  LET activity == get_activity_by_name(S, activity_name)
  IN IF activity = Absent
     THEN [NoResponse EXCEPT !.endpoint = "activity-details", !.status = HttpNotFound,
                             !.detail = "Activity not found"]
     ELSE LET signups == get_signups_by_activity(S, activity_name)
              signup_details == ActivitySignupDetails(S, signups)
          IN [NoResponse EXCEPT !.endpoint = "activity-details", !.status = HttpOk,
                                !.body = [activity |-> activity[1],
                                          signups |-> signup_details,
                                          total_signups |-> Len(signup_details),
                                          spots_left |-> activity[1].max_participants
                                                           - Len(signup_details)]]

\* the uploads: each workbook under an Excel name, a file under another name,
\* and a workbook at a time when /tmp cannot be written
Uploads ==
  { [filename |-> "school_activities.xlsx", excel_name |-> TRUE, writable |-> TRUE,
     workbook |-> w] : w \in Workbooks }
  \cup { [filename |-> "notes.txt", excel_name |-> FALSE, writable |-> TRUE,
          workbook |-> NoWorkbook],
         [filename |-> "school_activities.xlsx", excel_name |-> TRUE, writable |-> FALSE,
          workbook |-> ValidWorkbook] }

\* the names a signup request is made with: in the mapping and in a workbook,
\* in the mapping only, in a workbook only
RequestedActivities == {"Chess Club", "Gym Class", "Art Club"}
\* the emails a signup request is made with: one of a workbook, one of none
RequestEmails == {"michael@mergington.edu", "daniel@mergington.edu"}

\* the instants the clock reads while a request is served: an afternoon and
\* the next morning
RequestInstants ==
  { [year |-> 2024, month |-> 1, day |-> 31, hour |-> 15],
    [year |-> 2024, month |-> 2, day |-> 1, hour |-> 9] }

\* the keys looked up: the ones the writes use and one that is never written
LookupEmails == Emails \cup {"daniel@mergington.edu"}
LookupNames == ActivityNames \cup {"Gym Class"}

\* lines 24-32: the module is imported; data/school_activities.xlsx is loaded
\* when it exists
ApiInit ==
  /\ \E now \in RequestInstants :
       \/ StoreIs(EmptyStore)
       \/ \E w \in Workbooks : StoreIs(load_all_from_excel(EmptyStore, w, now).store)
  /\ InitRest

\* ret holds the request and the call of add_signup it led to, if any;
\* signups_ok counts the facts the endpoint has added
SignupForActivity ==
  \E activity_name \in RequestedActivities, email \in RequestEmails, now \in RequestInstants :
    /\ fact_counter <= MaxFacts
    /\ activity_name \in DOMAIN activities =>
         Appended(activities, activity_name) < MaxSignupRequests
    /\ LET h == signup_for_activity(activities, Store, activity_name, email, now)
       IN /\ SetStore(h.store)
          /\ activities' = h.activities
          /\ response' = h.response
          /\ ret' = IF h.called
                    THEN [NoCall EXCEPT !.op = "add_signup", !.email = email,
                                        !.activity_name = activity_name,
                                        !.value = h.call.value, !.error = h.call.error]
                    ELSE [NoCall EXCEPT !.email = email,
                                        !.activity_name = activity_name]
          /\ signups_ok' = IF h.called /\ h.call.error = "none"
                           THEN signups_ok + 1 ELSE signups_ok
          /\ UNCHANGED <<student_log, activity_log, temp_files, threads>>

LoadExcelFile ==
  \E upload \in Uploads, now \in RequestInstants :
    /\ fact_counter <= MaxFacts
    /\ LET h == load_excel_file(Store, temp_files, upload, now)
       IN /\ SetStore(h.store)
          /\ temp_files' = h.temp_files
          /\ response' = h.response
          /\ ret' = [NoCall EXCEPT !.op = "load_excel_file",
                                   !.upload = [filename |-> upload.filename,
                                               excel_name |-> upload.excel_name,
                                               writable |-> upload.writable]]
          /\ UNCHANGED <<histVars, activities, threads>>

\* ret holds the key the request named
GetStudentDetails ==
  /\ \E email \in LookupEmails :
       /\ response' = get_student_details(Store, email)
       /\ ret' = [NoCall EXCEPT !.op = "get_student_details", !.email = email]
  /\ UNCHANGED <<storeVars, histVars, activities, temp_files, threads>>

GetActivityDetails ==
  /\ \E activity_name \in LookupNames :
       /\ response' = get_activity_details(Store, activity_name)
       /\ ret' = [NoCall EXCEPT !.op = "get_activity_details",
                                !.activity_name = activity_name]
  /\ UNCHANGED <<storeVars, histVars, activities, temp_files, threads>>

ApiNext == SignupForActivity \/ LoadExcelFile \/ GetStudentDetails \/ GetActivityDetails

ApiSpec == ApiInit /\ [][ApiNext]_vars

(***************************************************************************)
(* app.py served by several threads.  signup_for_activity is a def         *)
(* endpoint: each request runs on a worker thread.  load_excel_file is an  *)
(* async def endpoint: it runs on the event loop's thread, and from the    *)
(* open() of line 200 on it does not await, so one upload is loaded at a   *)
(* time.  No lock is taken anywhere in app.py, excel_loader.py or          *)
(* star_schema.py, so the threads interleave between any two accesses of   *)
(* the store; self._x_counter += 1 is a read followed by a write.  A       *)
(* thread's pc names the method and the line it executes next.             *)
(***************************************************************************)
Th(t) == threads[t]
\* a thread takes no further request once it has served MaxRequestsPerThread
MaxRequestsPerThread == 1
\* the thread waits for its next request; what it returned last is kept
Rest(th, status) == [Idle EXCEPT !.status = status, !.fact_id = th.fact_id,
                                 !.served = th.served]
\* the thread takes up a request
Take(th, kind) == [Busy EXCEPT !.kind = kind, !.fact_id = th.fact_id,
                               !.served = th.served + 1]
\* the first line of the method called
FirstLine(c) ==
  CASE c.op = "add_student" -> "add_student:80"
    [] c.op = "add_activity" -> "add_activity:98"
    [] OTHER -> "add_signup:141"
\* the thread enters the next store call of its request, or has none left
\* and is about to answer
Enter(th) ==
  IF th.todo = <<>> THEN [th EXCEPT !.pc = "respond"]
  ELSE [th EXCEPT !.call = Head(th.todo), !.pc = FirstLine(Head(th.todo))]
\* the uploads made to the threaded server: one row per sheet
ConcWorkbook ==
  [students |-> Sheet(<< [email |-> "emma@mergington.edu", name |-> "Emma Williams",
                          grade_level |-> 11] >>),
   activities |-> Sheet(<< [activity_name |-> "Art Club",
                            description |-> "Explore creativity",
                            schedule |-> "Thursdays", max_participants |-> 2] >>),
   signups |-> Sheet(<< [student_email |-> "emma@mergington.edu",
                         activity_name |-> "Art Club",
                         signup_date |-> NoDate] >>)]
ConcUploads ==
  { [filename |-> "school_activities.xlsx", excel_name |-> TRUE, writable |-> TRUE,
     workbook |-> ConcWorkbook],
    [filename |-> "notes.txt", excel_name |-> FALSE, writable |-> TRUE,
     workbook |-> ConcWorkbook],
    [filename |-> "school_activities.xlsx", excel_name |-> TRUE, writable |-> FALSE,
     workbook |-> ConcWorkbook] }
\* the clock of the threaded server
ConcInstants ==
  { [year |-> 2024, month |-> 1, day |-> 31, hour |-> 15],
    [year |-> 2024, month |-> 2, day |-> 1, hour |-> 9] }
SetTh(t, r) == threads' = [threads EXCEPT ![t] = r]
concFrame == <<ret, histVars, response>>

StudentCalls(sheet) ==
  IF sheet.present THEN [i \in 1..Len(sheet.rows) |-> [op |-> "add_student", row |-> sheet.rows[i]]]
  ELSE <<>>
ActivityCalls(sheet) ==
  IF sheet.present THEN [i \in 1..Len(sheet.rows) |-> [op |-> "add_activity", row |-> sheet.rows[i]]]
  ELSE <<>>
SignupCalls(sheet) ==
  IF sheet.present THEN [i \in 1..Len(sheet.rows) |-> [op |-> "add_signup", row |-> sheet.rows[i]]]
  ELSE <<>>

\* app.py lines 72-83: the request is received; the name is looked up in the
\* mapping and the email appended
ReceiveSignup(t) ==
  /\ t \in Workers
  /\ Th(t).pc = "idle"
  \* the workers are interchangeable: worker2 is the second one to be used
  /\ t = "worker2" => Th("worker1").served > 0
  /\ Th(t).served < MaxRequestsPerThread
  /\ fact_counter <= MaxFacts
  /\ \E activity_name \in RequestedActivities, email \in RequestEmails :
       IF activity_name \notin DOMAIN activities
       THEN /\ SetTh(t, [Rest(Th(t), HttpNotFound) EXCEPT !.served = @ + 1])
            /\ UNCHANGED activities
       ELSE /\ Appended(activities, activity_name) < MaxSignupRequests
            /\ activities' = [activities EXCEPT ![activity_name].participants = Append(@, email)]
            /\ SetTh(t, Enter([Take(Th(t), "signup") EXCEPT
                                     !.todo = << [op |-> "add_signup",
                                                  row |-> [student_email |-> email,
                                                           activity_name |-> activity_name,
                                                           signup_date |-> NoDate]] >>]))
  /\ UNCHANGED <<storeVars, concFrame, temp_files>>

\* app.py lines 189-204: the upload is received and saved; the calls
\* load_all_from_excel will make are the rows of the sheets that exist
ReceiveUpload(t) ==
  /\ t = "loop"
  /\ Th(t).pc = "idle"
  /\ Th(t).served < MaxRequestsPerThread
  /\ fact_counter <= MaxFacts
  /\ \E upload \in ConcUploads :
       IF ~upload.excel_name
       THEN /\ SetTh(t, [Rest(Th(t), HttpBadRequest) EXCEPT !.served = @ + 1])
            /\ UNCHANGED temp_files
       ELSE IF ~upload.writable
       THEN /\ SetTh(t, [Rest(Th(t), HttpServerError) EXCEPT !.served = @ + 1])
            /\ temp_files' = temp_files \ {upload.filename}
       ELSE /\ temp_files' = temp_files \cup {upload.filename}
            /\ SetTh(t, Enter([Take(Th(t), "load") EXCEPT
                                     !.filename = upload.filename,
                                     !.todo = StudentCalls(upload.workbook.students)
                                                \o ActivityCalls(upload.workbook.activities)
                                                \o SignupCalls(upload.workbook.signups)]))
  /\ UNCHANGED <<storeVars, concFrame, activities>>

\* the request is answered (app.py line 91; lines 207-209)
Respond(t) ==
  /\ Th(t).pc = "respond"
  /\ SetTh(t, Rest(Th(t), HttpOk))
  /\ temp_files' = IF Th(t).kind = "load" THEN temp_files \ {Th(t).filename}
                   ELSE temp_files
  /\ UNCHANGED <<storeVars, concFrame, activities>>

\* the call returns to the loop that made it
ReturnTo(th) ==
  Enter([th EXCEPT !.todo = Tail(@), !.call = NoCallArgs, !.date = NoDate,
                   !.student_id = None, !.activity_id = None, !.date_id = None,
                   !.id = None, !.tmp = None])

\* add_signup raised: app.py line 88 drops the exception; excel_loader.py
\* lines 89-90 and 113-114 end the signups batch, which is the last one
RaiseTo(th) ==
  Enter([th EXCEPT !.todo = <<>>, !.call = NoCallArgs, !.date = NoDate,
                   !.student_id = None, !.activity_id = None, !.date_id = None,
                   !.id = None, !.tmp = None])

\* add_student lines 80-81
AddStudent80(t) ==
  /\ Th(t).pc = "add_student:80"
  /\ IF Th(t).call.row.email \in DOMAIN student_email_index
     THEN SetTh(t, ReturnTo(Th(t)))
     ELSE SetTh(t, [Th(t) EXCEPT !.pc = "add_student:83"])
  /\ UNCHANGED <<storeVars, concFrame, activities, temp_files>>

\* add_student line 83
AddStudent83(t) ==
  /\ Th(t).pc = "add_student:83"
  /\ SetTh(t, [Th(t) EXCEPT !.id = student_counter, !.pc = "add_student:90"])
  /\ UNCHANGED <<storeVars, concFrame, activities, temp_files>>

\* add_student line 90
AddStudent90(t) ==
  /\ Th(t).pc = "add_student:90"
  /\ LET row == Th(t).call.row
     IN SetStore([Store EXCEPT !.dim_students =
                    Put(@, Th(t).id, [student_id |-> Th(t).id, email |-> row.email,
                                      name |-> row.name, grade_level |-> row.grade_level])])
  /\ SetTh(t, [Th(t) EXCEPT !.pc = "add_student:91"])
  /\ UNCHANGED <<concFrame, activities, temp_files>>

\* add_student line 91
AddStudent91(t) ==
  /\ Th(t).pc = "add_student:91"
  /\ SetStore([Store EXCEPT !.student_email_index =
                 IndexPut(@, Th(t).call.row.email, Th(t).id)])
  /\ SetTh(t, [Th(t) EXCEPT !.pc = "add_student:92"])
  /\ UNCHANGED <<concFrame, activities, temp_files>>

\* add_student line 92, the read
AddStudent92(t) ==
  /\ Th(t).pc = "add_student:92"
  /\ SetTh(t, [Th(t) EXCEPT !.tmp = student_counter, !.pc = "add_student:92w"])
  /\ UNCHANGED <<storeVars, concFrame, activities, temp_files>>

\* add_student line 92, the write, and line 93
AddStudent92w(t) ==
  /\ Th(t).pc = "add_student:92w"
  /\ SetStore([Store EXCEPT !.student_counter = Th(t).tmp + 1])
  /\ SetTh(t, ReturnTo(Th(t)))
  /\ UNCHANGED <<concFrame, activities, temp_files>>

\* add_activity lines 98-99
AddActivity98(t) ==
  /\ Th(t).pc = "add_activity:98"
  /\ IF Th(t).call.row.activity_name \in DOMAIN activity_name_index
     THEN SetTh(t, ReturnTo(Th(t)))
     ELSE SetTh(t, [Th(t) EXCEPT !.pc = "add_activity:101"])
  /\ UNCHANGED <<storeVars, concFrame, activities, temp_files>>

\* add_activity line 101
AddActivity101(t) ==
  /\ Th(t).pc = "add_activity:101"
  /\ SetTh(t, [Th(t) EXCEPT !.id = activity_counter, !.pc = "add_activity:109"])
  /\ UNCHANGED <<storeVars, concFrame, activities, temp_files>>

\* add_activity line 109
AddActivity109(t) ==
  /\ Th(t).pc = "add_activity:109"
  /\ LET row == Th(t).call.row
     IN SetStore([Store EXCEPT !.dim_activities =
                    Put(@, Th(t).id, [activity_id |-> Th(t).id,
                                      activity_name |-> row.activity_name,
                                      description |-> row.description,
                                      schedule |-> row.schedule,
                                      max_participants |-> row.max_participants])])
  /\ SetTh(t, [Th(t) EXCEPT !.pc = "add_activity:110"])
  /\ UNCHANGED <<concFrame, activities, temp_files>>

\* add_activity line 110
AddActivity110(t) ==
  /\ Th(t).pc = "add_activity:110"
  /\ SetStore([Store EXCEPT !.activity_name_index =
                 IndexPut(@, Th(t).call.row.activity_name, Th(t).id)])
  /\ SetTh(t, [Th(t) EXCEPT !.pc = "add_activity:111"])
  /\ UNCHANGED <<concFrame, activities, temp_files>>

\* add_activity line 111, the read
AddActivity111(t) ==
  /\ Th(t).pc = "add_activity:111"
  /\ SetTh(t, [Th(t) EXCEPT !.tmp = activity_counter, !.pc = "add_activity:111w"])
  /\ UNCHANGED <<storeVars, concFrame, activities, temp_files>>

\* add_activity line 111, the write, and line 112
AddActivity111w(t) ==
  /\ Th(t).pc = "add_activity:111w"
  /\ SetStore([Store EXCEPT !.activity_counter = Th(t).tmp + 1])
  /\ SetTh(t, ReturnTo(Th(t)))
  /\ UNCHANGED <<concFrame, activities, temp_files>>

\* add_signup lines 137-141
AddSignup141(t) ==
  /\ Th(t).pc = "add_signup:141"
  /\ \E now \in IF Th(t).call.row.signup_date = NoDate THEN ConcInstants
                 ELSE {Th(t).call.row.signup_date} :
       SetTh(t, [Th(t) EXCEPT !.date = now,
                              !.student_id = IndexGet(student_email_index,
                                                      Th(t).call.row.student_email),
                              !.pc = "add_signup:142"])
  /\ UNCHANGED <<storeVars, concFrame, activities, temp_files>>

\* add_signup lines 142-147
AddSignup142(t) ==
  /\ Th(t).pc = "add_signup:142"
  /\ LET activity_id == IndexGet(activity_name_index, Th(t).call.row.activity_name)
     IN IF Th(t).student_id = None \/ activity_id = None
        THEN SetTh(t, RaiseTo(Th(t)))
        ELSE SetTh(t, [Th(t) EXCEPT !.activity_id = activity_id, !.pc = "add_date:117"])
  /\ UNCHANGED <<storeVars, concFrame, activities, temp_files>>

\* add_date lines 116-118, called from add_signup line 149
AddDate117(t) ==
  /\ Th(t).pc = "add_date:117"
  /\ LET date_str == StrftimeYmd(Th(t).date)
     IN IF date_str \in DOMAIN date_string_index
        THEN SetTh(t, [Th(t) EXCEPT !.date_id = date_string_index[date_str],
                                    !.pc = "add_signup:152"])
        ELSE SetTh(t, [Th(t) EXCEPT !.pc = "add_date:120"])
  /\ UNCHANGED <<storeVars, concFrame, activities, temp_files>>

\* add_date line 120
AddDate120(t) ==
  /\ Th(t).pc = "add_date:120"
  /\ SetTh(t, [Th(t) EXCEPT !.date_id = date_counter, !.pc = "add_date:129"])
  /\ UNCHANGED <<storeVars, concFrame, activities, temp_files>>

\* add_date line 129
AddDate129(t) ==
  /\ Th(t).pc = "add_date:129"
  /\ LET date == Th(t).date
     IN SetStore([Store EXCEPT !.dim_dates =
                    Put(@, Th(t).date_id, [date_id |-> Th(t).date_id,
                                           date |-> StrftimeYmd(date), day |-> date.day,
                                           month |-> date.month, year |-> date.year,
                                           weekday |-> StrftimeA(date)])])
  /\ SetTh(t, [Th(t) EXCEPT !.pc = "add_date:130"])
  /\ UNCHANGED <<concFrame, activities, temp_files>>

\* add_date line 130
AddDate130(t) ==
  /\ Th(t).pc = "add_date:130"
  /\ SetStore([Store EXCEPT !.date_string_index =
                 IndexPut(@, StrftimeYmd(Th(t).date), Th(t).date_id)])
  /\ SetTh(t, [Th(t) EXCEPT !.pc = "add_date:131"])
  /\ UNCHANGED <<concFrame, activities, temp_files>>

\* add_date line 131, the read
AddDate131(t) ==
  /\ Th(t).pc = "add_date:131"
  /\ SetTh(t, [Th(t) EXCEPT !.tmp = date_counter, !.pc = "add_date:131w"])
  /\ UNCHANGED <<storeVars, concFrame, activities, temp_files>>

\* add_date line 131, the write, and line 132
AddDate131w(t) ==
  /\ Th(t).pc = "add_date:131w"
  /\ SetStore([Store EXCEPT !.date_counter = Th(t).tmp + 1])
  /\ SetTh(t, [Th(t) EXCEPT !.tmp = None, !.pc = "add_signup:152"])
  /\ UNCHANGED <<concFrame, activities, temp_files>>

\* add_signup line 152
AddSignup152(t) ==
  /\ Th(t).pc = "add_signup:152"
  /\ SetTh(t, [Th(t) EXCEPT !.fact_id = fact_counter, !.pc = "add_signup:160"])
  /\ UNCHANGED <<storeVars, concFrame, activities, temp_files>>

\* add_signup lines 153-160
AddSignup160(t) ==
  /\ Th(t).pc = "add_signup:160"
  /\ SetStore([Store EXCEPT !.fact_signups =
                 Put(@, Th(t).fact_id, [fact_signup_id |-> Th(t).fact_id,
                                        student_id |-> Th(t).student_id,
                                        activity_id |-> Th(t).activity_id,
                                        date_id |-> Th(t).date_id,
                                        signup_timestamp |-> IsoFormat(Th(t).date)])])
  /\ SetTh(t, [Th(t) EXCEPT !.pc = "add_signup:161"])
  /\ UNCHANGED <<concFrame, activities, temp_files>>

\* add_signup line 161, the read
AddSignup161(t) ==
  /\ Th(t).pc = "add_signup:161"
  /\ SetTh(t, [Th(t) EXCEPT !.tmp = fact_counter, !.pc = "add_signup:161w"])
  /\ UNCHANGED <<storeVars, concFrame, activities, temp_files>>

\* add_signup line 161, the write, and line 162
AddSignup161w(t) ==
  /\ Th(t).pc = "add_signup:161w"
  /\ SetStore([Store EXCEPT !.fact_counter = Th(t).tmp + 1])
  /\ SetTh(t, ReturnTo(Th(t)))
  /\ UNCHANGED <<concFrame, activities, temp_files>>

ConcNext ==
  \E t \in Threads :
    \/ ReceiveSignup(t) \/ ReceiveUpload(t) \/ Respond(t)
    \/ AddStudent80(t) \/ AddStudent83(t) \/ AddStudent90(t) \/ AddStudent91(t)
    \/ AddStudent92(t) \/ AddStudent92w(t)
    \/ AddActivity98(t) \/ AddActivity101(t) \/ AddActivity109(t) \/ AddActivity110(t)
    \/ AddActivity111(t) \/ AddActivity111w(t)
    \/ AddSignup141(t) \/ AddSignup142(t)
    \/ AddDate117(t) \/ AddDate120(t) \/ AddDate129(t) \/ AddDate130(t)
    \/ AddDate131(t) \/ AddDate131w(t)
    \/ AddSignup152(t) \/ AddSignup160(t) \/ AddSignup161(t) \/ AddSignup161w(t)

ConcSpec == ApiInit /\ [][ConcNext]_vars

(***************************************************************************)
(* The store written and read: calls of add_student, add_activity and      *)
(* add_signup, and after any of them one call of a query method.  A query  *)
(* leaves the store alone, so a second query in a row would read what the  *)
(* first could have read.                                                  *)
(***************************************************************************)
\* the clock of the written-and-read store: an instant on each of two days
QueryInstants ==
  { [year |-> 2024, month |-> 1, day |-> 31, hour |-> 15],
    [year |-> 2024, month |-> 2, day |-> 1, hour |-> 9] }

WriteStudent ==
  /\ fact_counter <= MaxFacts
  /\ \E row \in StudentRows :
       LET r == add_student(Store, row.email, row.name, row.grade_level)
       IN /\ SetStore(r.store)
          /\ student_log' = IF Has(student_log, row.email) THEN student_log
                            ELSE Put(student_log, row.email, r.value)
          /\ ret' = NoCall
          /\ UNCHANGED <<activity_log, signups_ok, apiVars, threads>>

WriteActivity ==
  /\ fact_counter <= MaxFacts
  /\ \E row \in ActivityRows :
       LET r == add_activity(Store, row.activity_name, row.description,
                             row.schedule, row.max_participants)
       IN /\ SetStore(r.store)
          /\ activity_log' = IF Has(activity_log, row.activity_name) THEN activity_log
                             ELSE Put(activity_log, row.activity_name, r.value)
          /\ ret' = NoCall
          /\ UNCHANGED <<student_log, signups_ok, apiVars, threads>>

WriteSignup ==
  /\ fact_counter <= MaxFacts
  /\ \E student_email \in Emails, activity_name \in ActivityNames, now \in QueryInstants :
       LET r == add_signup(Store, student_email, activity_name, NoDate, now)
       IN /\ SetStore(r.store)
          /\ signups_ok' = IF r.error = "none" THEN signups_ok + 1 ELSE signups_ok
          /\ ret' = NoCall
          /\ UNCHANGED <<student_log, activity_log, apiVars, threads>>

\* what ret holds after a query
Answer(op, email, activity_name, value) ==
  [NoCall EXCEPT !.op = op, !.email = email, !.activity_name = activity_name,
                 !.value = value]

GetStudentByEmail ==
  /\ ret.op = "none"
  /\ \E email \in LookupEmails :
       ret' = Answer("get_student_by_email", email, "",
                     get_student_by_email(Store, email))
  /\ UNCHANGED <<storeVars, histVars, apiVars, threads>>

GetActivityByName ==
  /\ ret.op = "none"
  /\ \E name \in LookupNames :
       ret' = Answer("get_activity_by_name", "", name,
                     get_activity_by_name(Store, name))
  /\ UNCHANGED <<storeVars, histVars, apiVars, threads>>

GetSignupsByStudent ==
  /\ ret.op = "none"
  /\ \E email \in LookupEmails :
       ret' = Answer("get_signups_by_student", email, "",
                     get_signups_by_student(Store, email))
  /\ UNCHANGED <<storeVars, histVars, apiVars, threads>>

\* get_signups_by_activity looking the name up with a get-or-create: a name
\* the index does not know is entered under the next activity id
GetSignupsByActivity_registering ==
  /\ ret.op = "none"
  /\ \E name \in LookupNames :
       /\ ret' = Answer("get_signups_by_activity", "", name,
                        get_signups_by_activity(Store, name))
       /\ activity_name_index' =
            IF name \in DOMAIN activity_name_index THEN activity_name_index
            ELSE IndexPut(activity_name_index, name, activity_counter)
  /\ UNCHANGED <<dim_students, dim_activities, dim_dates, fact_signups,
                 student_counter, activity_counter, date_counter, fact_counter,
                 student_email_index, date_string_index>>
  /\ UNCHANGED <<histVars, apiVars, threads>>

GetSignupsByActivity ==
  /\ ret.op = "none"
  /\ \E name \in LookupNames :
       ret' = Answer("get_signups_by_activity", "", name,
                     get_signups_by_activity(Store, name))
  /\ UNCHANGED <<storeVars, histVars, apiVars, threads>>

GetActivityAnalytics ==
  /\ ret.op = "none"
  /\ ret' = Answer("get_activity_analytics", "", "", get_activity_analytics(Store))
  /\ UNCHANGED <<storeVars, histVars, apiVars, threads>>

GetStudentAnalytics ==
  /\ ret.op = "none"
  /\ ret' = Answer("get_student_analytics", "", "", get_student_analytics(Store))
  /\ UNCHANGED <<storeVars, histVars, apiVars, threads>>

QueryNext ==
  \/ WriteStudent \/ WriteActivity \/ WriteSignup
  \/ GetStudentByEmail \/ GetActivityByName
  \/ GetSignupsByStudent \/ GetSignupsByActivity
  \/ GetActivityAnalytics \/ GetStudentAnalytics

QuerySpec == Init /\ [][QueryNext]_vars

(***************************************************************************)
(* Properties of the store under Spec.                                     *)
(***************************************************************************)
RowsWith(t, field, v) == {i \in 1..Len(t) : t[i].val[field] = v}

\* C1: an add_student call returns the id the first call for that email
\* returned, and dim_students holds exactly one row for that email; likewise
\* add_activity and activity_name.
C1_DedupReturnsFirstId ==
  /\ ret.op = "add_student" =>
       /\ Has(student_log, ret.email)
       /\ ret.value = Get(student_log, ret.email)
       /\ Cardinality(RowsWith(dim_students, "email", ret.email)) = 1
  /\ ret.op = "add_activity" =>
       /\ Has(activity_log, ret.activity_name)
       /\ ret.value = Get(activity_log, ret.activity_name)
       /\ Cardinality(RowsWith(dim_activities, "activity_name", ret.activity_name)) = 1

\* a duplicate add_student call has just returned the id of the first of two
\* students, and a duplicate add_activity call is possible as well
C1_Witness ==
  /\ ret.op = "add_student"
  /\ ret.value = 1
  /\ student_counter = 3
  /\ Len(dim_students) = 2

\* C2: the ids returned for the first insertion of each email are 1, 2, ..., N
\* in insertion order, whatever duplicate calls came in between.
C2_IdsAreOneToN ==
  /\ \A i \in 1..Len(student_log) : student_log[i].val = i
  /\ Len(student_log) = Cardinality(Keys(student_log))

\* both emails were inserted and a duplicate call for the first came after
C2_Witness ==
  /\ Len(student_log) = 2
  /\ student_log[2].val = 2
  /\ ret.op = "add_student"
  /\ ret.value = 1

\* C3: add_signup with an email or an activity name that is not indexed fails
\* with a not-found error and leaves the whole store unchanged.
C3_FailedSignupChangesNothing ==
  [][(/\ ret'.op = "add_signup"
      /\ \/ ret'.email \notin DOMAIN student_email_index
         \/ ret'.activity_name \notin DOMAIN activity_name_index)
     => /\ ret'.error \in {ErrStudent, ErrActivity}
        /\ UNCHANGED storeVars]_vars

\* add_signup(unknown email, known activity) has failed
C3_Witness ==
  /\ ret.op = "add_signup"
  /\ ret.error = ErrStudent
  /\ ret.activity_name \in DOMAIN activity_name_index
  /\ ret.email \notin DOMAIN student_email_index

\* C4: every fact row's student_id, activity_id and date_id are keys of
\* dim_students, dim_activities and dim_dates.
C4_ForeignKeysResolve ==
  \A i \in 1..Len(fact_signups) :
    /\ fact_signups[i].val.student_id \in Keys(dim_students)
    /\ fact_signups[i].val.activity_id \in Keys(dim_activities)
    /\ fact_signups[i].val.date_id \in Keys(dim_dates)

\* two facts of different students, activities and days
C4_Witness ==
  /\ Len(fact_signups) = 2
  /\ fact_signups[1].val.student_id # fact_signups[2].val.student_id
  /\ fact_signups[1].val.activity_id # fact_signups[2].val.activity_id
  /\ fact_signups[1].val.date_id # fact_signups[2].val.date_id

\* the index idx and the table t, whose natural key is field, are inverse to
\* each other
IndexBijection(idx, t, field) ==
  /\ \A k \in DOMAIN idx : Has(t, idx[k]) /\ Get(t, idx[k])[field] = k
  /\ \A i \in 1..Len(t) :
       /\ t[i].val[field] \in DOMAIN idx
       /\ idx[t[i].val[field]] = t[i].key
       /\ Cardinality({k \in DOMAIN idx : idx[k] = t[i].key}) = 1
  /\ \A i, j \in 1..Len(t) : t[i].key = t[j].key => i = j

\* C5: each lookup index is a bijection with its table.
C5_IndexesAreBijections ==
  /\ IndexBijection(student_email_index, dim_students, "email")
  /\ IndexBijection(activity_name_index, dim_activities, "activity_name")
  /\ IndexBijection(date_string_index, dim_dates, "date")

\* every table holds two rows
C5_Witness ==
  /\ Len(dim_students) = 2
  /\ Len(dim_activities) = 2
  /\ Len(dim_dates) = 2

\* C8: add_signup with an unknown email and an unknown activity name reports
\* the unknown-student error.
C8_StudentCheckedFirst ==
  [][(/\ ret'.op = "add_signup"
      /\ ret'.email \notin DOMAIN student_email_index
      /\ ret'.activity_name \notin DOMAIN activity_name_index)
     => ret'.error = ErrStudent]_vars

\* such a call has failed, in a store that knows another student and activity
C8_Witness ==
  /\ ret.op = "add_signup"
  /\ ret.error = ErrStudent
  /\ ret.email \notin DOMAIN student_email_index
  /\ ret.activity_name \notin DOMAIN activity_name_index
  /\ Len(dim_students) = 1
  /\ Len(dim_activities) = 1

\* C9: every add_signup call that returns creates one fact row under a fresh
\* fact_signup_id, so that after k such calls fact_signups has k rows.
C9_EverySignupAddsARow ==
  /\ Len(fact_signups) = signups_ok
  /\ \A i, j \in 1..Len(fact_signups) :
       fact_signups[i].val.fact_signup_id = fact_signups[j].val.fact_signup_id => i = j
  /\ (ret.op = "add_signup" /\ ret.error = "none") =>
       /\ Len(fact_signups) > 0
       /\ fact_signups[Len(fact_signups)].key = ret.value
       /\ \A i \in 1..(Len(fact_signups) - 1) : fact_signups[i].key # ret.value

\* two facts of the same student, activity and day
C9_Witness ==
  /\ signups_ok = 2
  /\ Len(fact_signups) = 2
  /\ fact_signups[1].val.student_id = fact_signups[2].val.student_id
  /\ fact_signups[1].val.activity_id = fact_signups[2].val.activity_id
  /\ fact_signups[1].val.date_id = fact_signups[2].val.date_id

FactsOfActivity(t, activity_id) ==
  Cardinality({i \in 1..Len(t) : t[i].val.activity_id = activity_id})

\* C10: add_signup for a known student and a known activity succeeds and adds
\* a fact row, however many fact rows reference the activity already.
C10_NoCapacityCheck ==
  [][(/\ ret'.op = "add_signup"
      /\ ret'.email \in DOMAIN student_email_index
      /\ ret'.activity_name \in DOMAIN activity_name_index)
     => /\ ret'.error = "none"
        /\ Len(fact_signups') = Len(fact_signups) + 1]_vars

\* a signup has succeeded for an activity that was full already
C10_Witness ==
  /\ ret.op = "add_signup"
  /\ ret.error = "none"
  /\ FactsOfActivity(fact_signups, activity_name_index[ret.activity_name])
       > Get(dim_activities, activity_name_index[ret.activity_name]).max_participants

(***************************************************************************)
(* Properties of the handlers under ApiSpec.                               *)
(***************************************************************************)
\* C7 as stated: a signup request for an email the student index does not
\* know, or an activity the activity index does not know, is answered with an
\* error, not with success.
C7_StoreFailureIsAnErrorResponse ==
  [][(/\ response'.endpoint = "signup"
      /\ ret'.op = "add_signup"
      /\ \/ ret'.email \notin DOMAIN student_email_index
         \/ ret'.activity_name \notin DOMAIN activity_name_index)
     => response'.status # HttpOk]_vars

\* C7 as the code has it: a signup request is answered not-found exactly when
\* the activity name is not a key of the in-memory activities mapping; when
\* the name is a key the answer is success also when add_signup raised, and
\* then the store is unchanged.
C7_OnlyTheMappingDecidesNotFound ==
  [][response'.endpoint = "signup" =>
       /\ response'.status \in {HttpOk, HttpNotFound}
       /\ response'.status = HttpNotFound <=> ret'.op = "none"
       /\ ret'.op = "none" => UNCHANGED <<storeVars, activities>>
       /\ ret'.op = "add_signup" =>
            /\ ret'.activity_name \in DOMAIN activities
            /\ response'.status = HttpOk
            /\ (\/ ret'.email \notin DOMAIN student_email_index
                \/ ret'.activity_name \notin DOMAIN activity_name_index)
                 => (ret'.error # "none" /\ UNCHANGED storeVars)]_vars

\* a signup for an unknown student was answered with success, in a store that
\* knows the activity
C7_Witness ==
  /\ response.endpoint = "signup"
  /\ response.status = HttpOk
  /\ ret.op = "add_signup"
  /\ ret.error = ErrStudent
  /\ ret.activity_name \in DOMAIN activity_name_index
  /\ Len(fact_signups) > 0

\* a dimension batch was reported on its own: an error when the sheet is
\* missing, else the number of its rows, all of which the index then knows
DimensionBatchLoaded(sheet, outcome, index, key) ==
  IF ~sheet.present THEN outcome.value = None /\ outcome.error # "none"
  ELSE /\ outcome.error = "none"
       /\ outcome.value = Len(sheet.rows)
       /\ \A i \in 1..Len(sheet.rows) : sheet.rows[i][key] \in DOMAIN index

\* the number of rows of the signups sheet before the first one that names a
\* student or an activity the indexes do not know
SignupRowsAccepted(rows, student_index, activity_index) ==
  LET bad == {i \in 1..Len(rows) : \/ rows[i].student_email \notin DOMAIN student_index
                                   \/ rows[i].activity_name \notin DOMAIN activity_index}
  IN IF bad = {} THEN Len(rows)
     ELSE (CHOOSE i \in bad : \A j \in bad : i <= j) - 1

\* C18: load_all_from_excel loads the students, then the activities, then the
\* signups; a batch that fails does not keep the later ones from being
\* loaded, and the result reports each batch on its own, as its row count or
\* as an error.  The signups are resolved against the students and activities
\* the same workbook has just brought.
C18_BatchesAreIndependent ==
  [][(response'.endpoint = "load-excel" /\ response'.status = HttpOk) =>
       \E upload \in Uploads :
         LET w == upload.workbook
             res == response'.results
             n == SignupRowsAccepted(w.signups.rows, student_email_index',
                                     activity_name_index')
         IN /\ upload.excel_name /\ upload.writable
            /\ DimensionBatchLoaded(w.students, res.students, student_email_index',
                                    "email")
            /\ DimensionBatchLoaded(w.activities, res.activities, activity_name_index',
                                    "activity_name")
            /\ Len(fact_signups') = Len(fact_signups) + n
            /\ IF w.signups.present /\ n = Len(w.signups.rows)
               THEN res.signups.error = "none" /\ res.signups.value = n
               ELSE res.signups.value = None /\ res.signups.error # "none"]_vars

\* a workbook without a Students sheet was loaded: the students batch failed,
\* the activities batch and the signups batch after it loaded one row each
C18_Witness ==
  /\ response.endpoint = "load-excel"
  /\ response.status = HttpOk
  /\ response.results.students.error # "none"
  /\ response.results.activities.value = 1
  /\ response.results.signups.value = 1

\* C19: get_student_details and get_activity_details answer not-found exactly
\* when the key is not in the store's index, and leave the store unchanged;
\* for a known activity total_signups and spots_left are the current_signups
\* and spots_left get_activity_analytics reports for that activity.
C19_DetailEndpoints ==
  [][/\ response'.endpoint = "student-details" =>
          /\ UNCHANGED storeVars
          /\ response'.status = IF ret'.email \in DOMAIN student_email_index
                                THEN HttpOk ELSE HttpNotFound
     /\ response'.endpoint = "activity-details" =>
          /\ UNCHANGED storeVars
          /\ response'.status = IF ret'.activity_name \in DOMAIN activity_name_index
                                THEN HttpOk ELSE HttpNotFound
          /\ response'.status = HttpOk =>
               LET analytics == get_activity_analytics(Store)
               IN \E i \in 1..Len(analytics) :
                    /\ analytics[i].activity_name = ret'.activity_name
                    /\ response'.body.total_signups = analytics[i].current_signups
                    /\ response'.body.spots_left = analytics[i].spots_left]_vars

\* the details of an activity with two signups and max_participants 1
C19_Witness ==
  /\ response.endpoint = "activity-details"
  /\ response.status = HttpOk
  /\ response.body.total_signups = 2
  /\ response.body.spots_left = -1

(***************************************************************************)
(* Properties of the threaded server under ConcSpec.                       *)
(***************************************************************************)
\* thread t is inside a method of the store
InStore(t) == Th(t).pc \notin {"idle", "respond"}
Quiescent == \A t \in Threads : ~InStore(t)

\* no two mutating store operations interleave
C6_NoInterleaving == Cardinality({t \in Threads : InStore(t)}) <= 1

\* no fact_signup_id was returned to two requests, and every table's keys are
\* the counter values handed out
C6_KeysUnique ==
  /\ \A t1, t2 \in Threads :
       (/\ t1 # t2
        /\ ~InStore(t1) /\ ~InStore(t2)
        /\ Th(t1).fact_id # None)
       => Th(t1).fact_id # Th(t2).fact_id
  /\ Quiescent =>
       /\ Keys(dim_students) = 1..(student_counter - 1)
       /\ Keys(dim_activities) = 1..(activity_counter - 1)
       /\ Keys(dim_dates) = 1..(date_counter - 1)
       /\ Keys(fact_signups) = 1..(fact_counter - 1)

\* between the calls the indexes are consistent with their tables
C6_IndexesConsistent ==
  Quiescent =>
    /\ IndexBijection(student_email_index, dim_students, "email")
    /\ IndexBijection(activity_name_index, dim_activities, "activity_name")
    /\ IndexBijection(date_string_index, dim_dates, "date")

\* C6: the API layer serializes the mutating store calls of concurrent
\* requests: no two of them interleave, and surrogate keys stay unique and
\* the indexes consistent.
C6_ApiSerializesStoreCalls ==
  /\ C6_NoInterleaving
  /\ C6_KeysUnique
  /\ C6_IndexesConsistent

(***************************************************************************)
(* Further properties of the store under Spec.                             *)
(***************************************************************************)
\* C15: first write wins: an add_student call for an email that is indexed
\* already returns the indexed id and leaves the whole store unchanged: the
\* stored name and grade_level stay, the counter does not advance.  Likewise
\* add_activity with description, schedule and max_participants.
C15_FirstWriteWins ==
  [][/\ (ret'.op = "add_student" /\ ret'.email \in DOMAIN student_email_index)
          => /\ ret'.value = student_email_index[ret'.email]
             /\ UNCHANGED storeVars
     /\ (ret'.op = "add_activity" /\ ret'.activity_name \in DOMAIN activity_name_index)
          => /\ ret'.value = activity_name_index[ret'.activity_name]
             /\ UNCHANGED storeVars]_vars

\* a duplicate add_activity call has returned the id of the first of two
\* activities, whose row a signup references
C15_Witness ==
  /\ ret.op = "add_activity"
  /\ ret.value = 1
  /\ activity_counter = 3
  /\ Len(fact_signups) = 1
  /\ fact_signups[1].val.activity_id = 1

\* the key of the row of dim_dates for the calendar day of date
DateIdOf(t, date) ==
  t[CHOOSE i \in RowsWith(t, "date", StrftimeYmd(date)) : TRUE].key

\* C16: add_date returns, for every instant of one calendar day, the same
\* date_id, and dim_dates holds exactly one row for that day; instants of
\* different days get different date_ids.
C16_OneDateRowPerDay ==
  [][ret'.op = "add_date" =>
       /\ Cardinality(RowsWith(dim_dates', "date", StrftimeYmd(ret'.date))) = 1
       /\ ret'.value = DateIdOf(dim_dates', ret'.date)
       /\ \A i, j \in 1..Len(dim_dates') :
            (dim_dates'[i].val.date = dim_dates'[j].val.date
               \/ dim_dates'[i].key = dim_dates'[j].key) => i = j
       /\ IF RowsWith(dim_dates, "date", StrftimeYmd(ret'.date)) # {}
          THEN /\ ret'.value = DateIdOf(dim_dates, ret'.date)
               /\ UNCHANGED storeVars
          ELSE /\ Len(dim_dates') = Len(dim_dates) + 1
               /\ ret'.value \notin Keys(dim_dates)]_vars

\* add_date at 15h has returned the id of the day a signup of 9h created, and
\* another day has its own row
C16_Witness ==
  /\ ret.op = "add_date"
  /\ ret.date.hour = 15
  /\ Len(dim_dates) = 2
  /\ Len(fact_signups) = 1
  /\ fact_signups[1].val.signup_timestamp[4] = 9
  /\ fact_signups[1].val.date_id = ret.value

\* the keys of table t are 1 .. counter-1, each once and in this order, and
\* every record carries its key in its id field
KeysAreCounted(t, counter, id_field) ==
  /\ Len(t) = counter - 1
  /\ \A i \in 1..Len(t) : t[i].key = i /\ t[i].val[id_field] = i

AllKeysAreCounted ==
  /\ KeysAreCounted(dim_students, student_counter, "student_id")
  /\ KeysAreCounted(dim_activities, activity_counter, "activity_id")
  /\ KeysAreCounted(dim_dates, date_counter, "date_id")
  /\ KeysAreCounted(fact_signups, fact_counter, "fact_signup_id")

\* C17: in each of the four tables the keys are exactly 1 .. counter-1 and
\* every record's id field is its key; a counter has advanced by one for each
\* insertion and not at all for a duplicate call or a failed call: it is one
\* more than the number of first insertions made so far.
C17_KeysAndCounters ==
  /\ AllKeysAreCounted
  /\ student_counter = Len(student_log) + 1
  /\ activity_counter = Len(activity_log) + 1
  /\ date_counter = Cardinality({dim_dates[i].val.date : i \in 1..Len(dim_dates)}) + 1
  /\ fact_counter = signups_ok + 1

\* an add_signup call has failed in a store with rows in all four tables, one
\* of them with two
C17_Witness ==
  /\ ret.op = "add_signup"
  /\ ret.error # "none"
  /\ student_counter = 2
  /\ activity_counter = 3
  /\ date_counter = 2
  /\ fact_counter = 2

\* every row of table t is in tn at the same place, with the same fields
RowsKept(t, tn) ==
  /\ Len(tn) >= Len(t)
  /\ \A i \in 1..Len(t) : tn[i] = t[i]

\* C20: a record present in dim_students, dim_activities, dim_dates or
\* fact_signups under some key is present under that key with the same field
\* values in every later state.
C20_RowsAreImmutable ==
  [][/\ RowsKept(dim_students, dim_students')
     /\ RowsKept(dim_activities, dim_activities')
     /\ RowsKept(dim_dates, dim_dates')
     /\ RowsKept(fact_signups, fact_signups')]_vars

\* a second signup of the same student for the same activity, on another
\* day, was stored next to the first
C20_Witness ==
  /\ Len(fact_signups) = 2
  /\ fact_signups[1].val.student_id = fact_signups[2].val.student_id
  /\ fact_signups[1].val.activity_id = fact_signups[2].val.activity_id
  /\ fact_signups[1].val.date_id # fact_signups[2].val.date_id
  /\ Len(dim_students) = 2
  /\ Len(dim_activities) = 2

\* the calendar day of an ISO timestamp
DayOf(signup_timestamp) == SubSeq(signup_timestamp, 1, 3)

\* C21: an add_signup that returns creates no student and no activity row; it
\* creates a date row exactly when the day of the signup is not indexed yet;
\* the new fact's date_id is the key of the date row of that day, which it
\* shares with every earlier fact of the same day, and its signup_timestamp
\* is the whole instant.
C21_SignupCreatesOnlyItsDate ==
  [][(ret'.op = "add_signup" /\ ret'.error = "none") =>
       LET date_str == StrftimeYmd(ret'.date)
           fact == fact_signups'[Len(fact_signups')].val
       IN /\ UNCHANGED <<dim_students, dim_activities, student_counter,
                         activity_counter, student_email_index, activity_name_index>>
          /\ Len(fact_signups') = Len(fact_signups) + 1
          /\ IF date_str \in DOMAIN date_string_index
             THEN UNCHANGED <<dim_dates, date_counter, date_string_index>>
             ELSE /\ Len(dim_dates') = Len(dim_dates) + 1
                  /\ SubSeq(dim_dates', 1, Len(dim_dates)) = dim_dates
                  /\ dim_dates'[Len(dim_dates')].val.date = date_str
          /\ Has(dim_dates', fact.date_id)
          /\ Get(dim_dates', fact.date_id).date = date_str
          /\ fact.signup_timestamp = IsoFormat(ret'.date)
          /\ \A i \in 1..Len(fact_signups) :
               DayOf(fact_signups[i].val.signup_timestamp) = date_str
                 <=> fact_signups[i].val.date_id = fact.date_id]_vars

\* the second of two signups made at different hours of one day has returned:
\* one date row, one date_id, two timestamps
C21_Witness ==
  /\ ret.op = "add_signup"
  /\ ret.error = "none"
  /\ Len(fact_signups) = 2
  /\ Len(dim_dates) = 1
  /\ fact_signups[1].val.date_id = fact_signups[2].val.date_id
  /\ fact_signups[1].val.signup_timestamp # fact_signups[2].val.signup_timestamp
  /\ fact_signups[2].val.signup_timestamp = IsoFormat(ret.date)

(***************************************************************************)
(* Properties of the query methods under QuerySpec.                        *)
(***************************************************************************)
\* the positions of the rows of table t whose field holds v, and the k-th of
\* them in table order
KthRowWith(t, field, v, k) ==
  CHOOSE i \in RowsWith(t, field, v) :
    Cardinality({j \in RowsWith(t, field, v) : j <= i}) = k

\* C11: get_activity_analytics returns one entry per row of dim_activities, in
\* insertion order; current_signups is the number of fact rows with that
\* activity_id and spots_left is max_participants minus current_signups, also
\* when that is negative.
C11_ActivityAnalytics ==
  ret.op = "get_activity_analytics" =>
    /\ Len(ret.value) = Len(dim_activities)
    /\ \A i \in 1..Len(dim_activities) :
         LET activity == dim_activities[i].val
             n == Cardinality(RowsWith(fact_signups, "activity_id", dim_activities[i].key))
         IN /\ dim_activities[i].key = i
            /\ ret.value[i].activity_name = activity.activity_name
            /\ ret.value[i].description = activity.description
            /\ ret.value[i].schedule = activity.schedule
            /\ ret.value[i].max_participants = activity.max_participants
            /\ ret.value[i].current_signups = n
            /\ ret.value[i].spots_left = activity.max_participants - n

\* the analytics of two activities, one of them with one signup more than its
\* max_participants
C11_Witness ==
  /\ ret.op = "get_activity_analytics"
  /\ Len(ret.value) = 2
  /\ \E i \in 1..2 :
       /\ ret.value[i].current_signups = ret.value[i].max_participants + 1
       /\ ret.value[i].spots_left = -1

\* C12: get_student_analytics returns one entry per row of dim_students, in
\* insertion order; activities is the sequence of the activity names of the
\* student's fact rows in fact insertion order, repetitions kept, and
\* activities_count is the number of fact rows with that student_id.
C12_StudentAnalytics ==
  ret.op = "get_student_analytics" =>
    /\ Len(ret.value) = Len(dim_students)
    /\ \A i \in 1..Len(dim_students) :
         LET student == dim_students[i].val
             n == Cardinality(RowsWith(fact_signups, "student_id", dim_students[i].key))
         IN /\ dim_students[i].key = i
            /\ ret.value[i].student_name = student.name
            /\ ret.value[i].email = student.email
            /\ ret.value[i].grade_level = student.grade_level
            /\ ret.value[i].activities_count = n
            /\ Len(ret.value[i].activities) = n
            /\ \A k \in 1..n :
                 ret.value[i].activities[k] =
                   Get(dim_activities,
                       fact_signups[KthRowWith(fact_signups, "student_id",
                                               dim_students[i].key, k)].val.activity_id
                      ).activity_name

\* the analytics of a student who joined the same activity twice
C12_Witness ==
  /\ ret.op = "get_student_analytics"
  /\ \E i \in 1..Len(ret.value) :
       /\ ret.value[i].activities_count = 2
       /\ ret.value[i].activities[1] = ret.value[i].activities[2]

\* C13: get_student_by_email(e) returns the record whose student_id is the id
\* the first add_student(e, ...) call returned, at any later time; for an
\* email never inserted it returns nothing and raises no error.  Likewise
\* get_activity_by_name.
C13_LookupReturnsTheInsertedRow ==
  /\ ret.op = "get_student_by_email" =>
       /\ ret.error = "none"
       /\ IF Has(student_log, ret.email)
          THEN /\ Len(ret.value) = 1
               /\ ret.value[1].student_id = Get(student_log, ret.email)
               /\ ret.value[1].email = ret.email
          ELSE ret.value = Absent
  /\ ret.op = "get_activity_by_name" =>
       /\ ret.error = "none"
       /\ IF Has(activity_log, ret.activity_name)
          THEN /\ Len(ret.value) = 1
               /\ ret.value[1].activity_id = Get(activity_log, ret.activity_name)
               /\ ret.value[1].activity_name = ret.activity_name
          ELSE ret.value = Absent

\* the second student inserted was looked up after a signup had been stored
C13_Witness ==
  /\ ret.op = "get_student_by_email"
  /\ Len(ret.value) = 1
  /\ ret.value[1].student_id = 2
  /\ Len(fact_signups) > 0

\* the fact rows in the sequence result are exactly the rows of fact_signups
\* whose field holds id, each once, in ascending fact_signup_id
ExactlyTheFactsWith(result, field, id) ==
  /\ \A k \in 1..Len(result) :
       /\ result[k][field] = id
       /\ Has(fact_signups, result[k].fact_signup_id)
       /\ result[k] = Get(fact_signups, result[k].fact_signup_id)
  /\ \A k \in 1..(Len(result) - 1) :
       result[k].fact_signup_id < result[k + 1].fact_signup_id
  /\ \A i \in RowsWith(fact_signups, field, id) :
       \E k \in 1..Len(result) : result[k].fact_signup_id = fact_signups[i].key

\* C14: get_signups_by_student and get_signups_by_activity return the empty
\* sequence for an unknown natural key, and otherwise exactly the fact rows
\* whose foreign key is the resolved surrogate key, each once, in fact
\* insertion order.
C14_SignupsByKey ==
  /\ ret.op = "get_signups_by_student" =>
       IF ret.email \notin DOMAIN student_email_index THEN ret.value = <<>>
       ELSE ExactlyTheFactsWith(ret.value, "student_id", student_email_index[ret.email])
  /\ ret.op = "get_signups_by_activity" =>
       IF ret.activity_name \notin DOMAIN activity_name_index THEN ret.value = <<>>
       ELSE ExactlyTheFactsWith(ret.value, "activity_id",
                                activity_name_index[ret.activity_name])

\* the signups of an activity: the second of two facts only, made by the
\* student whose id differs from the activity's
C14_Witness ==
  /\ ret.op = "get_signups_by_activity"
  /\ Len(fact_signups) = 2
  /\ Len(ret.value) = 1
  /\ ret.value[1].fact_signup_id = 2
  /\ ret.value[1].student_id # ret.value[1].activity_id

\* the op ret holds after a call of a query method
QueryOps ==
  {"get_student_by_email", "get_activity_by_name", "get_signups_by_student",
   "get_signups_by_activity", "get_activity_analytics", "get_student_analytics"}

\* C22: a call of a query method leaves the four tables, the four counters
\* and the three indexes as they were, whether the key it is given is known
\* to the store or not.
C22_QueriesOnlyRead ==
  [][ret'.op \in QueryOps =>
       /\ UNCHANGED <<dim_students, dim_activities, dim_dates, fact_signups>>
       /\ UNCHANGED <<student_counter, activity_counter, date_counter, fact_counter>>
       /\ UNCHANGED <<student_email_index, activity_name_index,
                      date_string_index>>]_vars

\* the signups of an activity the store does not know were asked for, in a
\* store that holds facts
C22_Witness ==
  /\ ret.op = "get_signups_by_activity"
  /\ ret.activity_name \notin DOMAIN activity_name_index
  /\ ret.value = <<>>
  /\ Len(fact_signups) > 0

\* the fact row is the one add_signup stores for the row of a signups sheet
\* that has its date, and its date row is there
FactOfRow(fact, row, student_index, activity_index, dates) ==
  /\ fact.student_id = student_index[row.student_email]
  /\ fact.activity_id = activity_index[row.activity_name]
  /\ row.signup_date # NoDate => fact.signup_timestamp = IsoFormat(row.signup_date)
  /\ Has(dates, fact.date_id)
  /\ Get(dates, fact.date_id).date = DayOf(fact.signup_timestamp)

\* C23: a signups batch is not atomic.  When a row of the sheet names a
\* student or an activity the indexes do not know, the facts and dates of the
\* rows before it stay in the store, no row after it is loaded, and the batch
\* is reported as an error, not as a count.
C23_SignupsBatchIsNotAtomic ==
  [][(/\ response'.endpoint = "load-excel"
      /\ response'.status = HttpOk
      /\ response'.results.signups.error # "none") =>
       \A upload \in Uploads :
         LET w == upload.workbook
             res == response'.results
             rows == w.signups.rows
             n == SignupRowsAccepted(rows, student_email_index', activity_name_index')
         IN (/\ upload.excel_name /\ upload.writable
             /\ DimensionBatchLoaded(w.students, res.students, student_email_index',
                                     "email")
             /\ DimensionBatchLoaded(w.activities, res.activities,
                                     activity_name_index', "activity_name")
             /\ w.signups.present)
            => /\ n < Len(rows)
               /\ res.signups.value = None
               /\ Len(fact_signups') = Len(fact_signups) + n
               /\ SubSeq(fact_signups', 1, Len(fact_signups)) = fact_signups
               /\ \A i \in 1..n :
                    FactOfRow(fact_signups'[Len(fact_signups) + i].val, rows[i],
                              student_email_index', activity_name_index',
                              dim_dates')]_vars

\* the three-row sheet was loaded into a store without Art Club: the batch
\* failed at its second row, the fact of the first row is kept, and the third
\* row, whose student and activity the store knows, has no fact
C23_Witness ==
  /\ response.endpoint = "load-excel"
  /\ response.results.students.value = 2
  /\ response.results.signups.error # "none"
  /\ "Art Club" \notin DOMAIN activity_name_index
  /\ "michael@mergington.edu" \in DOMAIN student_email_index
  /\ "Chess Club" \in DOMAIN activity_name_index
  /\ Len(fact_signups) = 1
  /\ fact_signups[1].val.signup_timestamp = <<2024, 1, 31, 9>>

\* the store is as the module's import or a signup or an upload left it; a
\* detail request reads it only, so the state after one holds the store of
\* the state before
StoreIsNew == response.endpoint \notin {"student-details", "activity-details"}

\* every batch of the result is a count
AllLoaded(results) ==
  /\ results.students.error = "none"
  /\ results.activities.error = "none"
  /\ results.signups.error = "none"

\* the same fact but for its key
SameSignup(f, g) ==
  /\ f.student_id = g.student_id
  /\ f.activity_id = g.activity_id
  /\ f.date_id = g.date_id
  /\ f.signup_timestamp = g.signup_timestamp

\* C24: when a workbook that loads without an error is loaded a second time
\* into the same store, the second load leaves the students and the
\* activities as they are, and the dates too when every signup row has its
\* date; it adds one more fact per signup row, the same fact under a new key
\* for a row that has its date, and reports the counts the first load
\* reported, which are the numbers of rows of the three sheets.  Checked for
\* every store a write has left.
C24_ReloadAddsOnlyFacts ==
  StoreIsNew =>
  \A w \in Workbooks : \A now1 \in RequestInstants :
    LET first == load_all_from_excel(Store, w, now1)
        rows == w.signups.rows
        before == Len(Store.fact_signups)
        between == Len(first.store.fact_signups)
    IN (/\ w.students.present /\ w.activities.present /\ w.signups.present
        /\ AllLoaded(first.results)) =>
         /\ first.results.students.value = Len(w.students.rows)
         /\ first.results.activities.value = Len(w.activities.rows)
         /\ first.results.signups.value = Len(rows)
         /\ between = before + Len(rows)
         /\ \A now2 \in RequestInstants :
              LET second == load_all_from_excel(first.store, w, now2)
              IN /\ second.results = first.results
                 /\ second.store.dim_students = first.store.dim_students
                 /\ second.store.student_counter = first.store.student_counter
                 /\ second.store.student_email_index = first.store.student_email_index
                 /\ second.store.dim_activities = first.store.dim_activities
                 /\ second.store.activity_counter = first.store.activity_counter
                 /\ second.store.activity_name_index = first.store.activity_name_index
                 /\ (\A i \in 1..Len(rows) : rows[i].signup_date # NoDate) =>
                      /\ second.store.dim_dates = first.store.dim_dates
                      /\ second.store.date_counter = first.store.date_counter
                      /\ second.store.date_string_index = first.store.date_string_index
                 /\ Len(second.store.fact_signups) = between + Len(rows)
                 /\ SubSeq(second.store.fact_signups, 1, between)
                      = first.store.fact_signups
                 /\ \A i \in 1..Len(rows) :
                      LET f == first.store.fact_signups[before + i].val
                          g == second.store.fact_signups[between + i].val
                      IN /\ g.fact_signup_id = f.fact_signup_id + Len(rows)
                         /\ g.student_id = f.student_id
                         /\ g.activity_id = f.activity_id
                         /\ rows[i].signup_date # NoDate => SameSignup(f, g)

\* ValidWorkbook has been loaded twice: one student, one activity, one date,
\* and two facts that differ in their key only
C24_Witness ==
  /\ response.endpoint = "load-excel"
  /\ response.status = HttpOk
  /\ AllLoaded(response.results)
  /\ response.results.signups.value = 1
  /\ Len(dim_students) = 1
  /\ Len(dim_activities) = 1
  /\ Len(dim_dates) = 1
  /\ Len(fact_signups) = 2
  /\ SameSignup(fact_signups[1].val, fact_signups[2].val)
  /\ fact_signups[2].val.signup_timestamp = IsoFormat(ValidWorkbook.signups.rows[1].signup_date)

\* the number of entries the endpoint has appended, over all activities
RECURSIVE AppendedIn(_, _)
AppendedIn(A, names) ==
  IF names = {} THEN 0
  ELSE LET a == CHOOSE x \in names : TRUE
       IN Appended(A, a) + AppendedIn(A, names \ {a})

\* the number of facts of the activity of that name
FactsNamed(facts, index, activity_name) ==
  IF activity_name \in DOMAIN index
  THEN Cardinality(RowsWith(facts, "activity_id", index[activity_name]))
  ELSE 0

\* C25: signup_for_activity decides on the activities mapping.  For a name
\* that is not a key of it the answer is not-found and neither a participants
\* list nor the store changes, whether or not the store knows the name.  For
\* a key, the email is appended to that activity's participants, once and
\* with no check of the list or of max_participants, and at most one fact is
\* added, a fact of that activity and that student; so each request adds to
\* no activity more facts than participants, and the facts added through the
\* endpoint never outnumber the participants appended through it.
C25_MappingDecidesSignup ==
  [][response'.endpoint = "signup" =>
       LET name == ret'.activity_name
           added == Len(fact_signups') - Len(fact_signups)
       IN /\ response'.status = IF name \in DOMAIN activities
                                THEN HttpOk ELSE HttpNotFound
          /\ name \notin DOMAIN activities => UNCHANGED <<activities, storeVars>>
          /\ name \in DOMAIN activities =>
               /\ activities' = [activities EXCEPT
                                   ![name].participants = Append(@, ret'.email)]
               /\ added \in {0, 1}
               /\ SubSeq(fact_signups', 1, Len(fact_signups)) = fact_signups
               /\ added = 1 =>
                    LET fact == fact_signups'[Len(fact_signups')].val
                    IN /\ fact.activity_id = activity_name_index[name]
                       /\ fact.student_id = student_email_index[ret'.email]
               /\ UNCHANGED <<dim_students, dim_activities, student_email_index,
                              activity_name_index>>
          /\ \A a \in DOMAIN activities :
               FactsNamed(fact_signups', activity_name_index', a)
                   - FactsNamed(fact_signups, activity_name_index, a)
                 <= Appended(activities', a) - Appended(activities, a)
          /\ signups_ok' <= AppendedIn(activities', DOMAIN activities')]_vars

\* a signup for Art Club, which the store knows and the mapping does not, by
\* a student the store knows, was answered not-found; the store holds facts
C25_Witness ==
  /\ response.endpoint = "signup"
  /\ response.status = HttpNotFound
  /\ ret.activity_name \notin DOMAIN activities
  /\ ret.activity_name \in DOMAIN activity_name_index
  /\ ret.email \in DOMAIN student_email_index
  /\ Len(fact_signups) > 0

\* C26: load_excel_file leaves no file under /tmp, whichever way it ends.
\* An upload with an Excel name that could be written to /tmp is answered
\* 'Data loaded successfully' with the three batch outcomes, also when
\* batches of the load failed; the only other answers are the 400 for
\* another file name and the 500 for a failure outside the load, and with
\* them the store is as it was.
C26_UploadIsAnsweredAndCleaned ==
  [][response'.endpoint = "load-excel" =>
       LET upload == ret'.upload
           res == response'.results
       IN /\ upload.filename \notin temp_files'
          /\ temp_files' = temp_files
          /\ response'.status =
               IF ~upload.excel_name THEN HttpBadRequest
               ELSE IF ~upload.writable THEN HttpServerError
               ELSE HttpOk
          /\ response'.status = HttpOk =>
               /\ response'.detail = "Data loaded successfully"
               /\ \A batch \in DOMAIN res :
                    (res[batch].error = "none") = (res[batch].value # None)
          /\ response'.status # HttpOk =>
               /\ UNCHANGED storeVars
               /\ res = NoResults]_vars

\* a file with none of the three sheets was uploaded into a store that holds
\* facts: all three batches failed, the answer is success, /tmp is clean
C26_Witness ==
  /\ response.endpoint = "load-excel"
  /\ response.status = HttpOk
  /\ response.detail = "Data loaded successfully"
  /\ response.results.students.error # "none"
  /\ response.results.activities.error # "none"
  /\ response.results.signups.error # "none"
  /\ temp_files = {}
  /\ Len(fact_signups) > 0

====
